---------------------------- MODULE Spec2Model ----------------------------
(***************************************************************************)
(* A model of the recursive-descent parser of libsolidity/parsing/Parser.cpp *)
(* (with the specification-expression extension).                          *)
(*                                                                         *)
(* Every parse function of the source is an operator of the same name that *)
(* takes the parser object p (a record of the members of Parser/ParserBase *)
(* together with the scanner it holds) and returns the parser object after *)
(* the call; the C++ return value is the field val.  A FatalError in       *)
(* flight is the field thrown; try/catch and the RAII guards of the source *)
(* are written out where the source has them.                              *)
(*                                                                         *)
(* The token source is a sequence of tokens (strings).  Token i occupies   *)
(* the source characters [2i-1, 2i); the characters at the even offsets    *)
(* 0, 2, .., 2n are the gaps (white space and comments) between tokens.    *)
(***************************************************************************)
EXTENDS Integers, Sequences, FiniteSets, TLC

\* ------------------------------------------------------------------ bounds
\* The recursion limit of the guard and the error limit of the reporter are
\* scaled down so that short inputs reach them.
RecursionLimit == 17
MaxErrorsAllowed == 2
\* Longest statement / expression / declaration fragment that is enumerated;
\* longer inputs are the listed Statements and Units.
MaxFragment == 2
\* Most operators in an enumerated chain of binary operations.
MaxOperators == 3

\* ------------------------------------------------------------------ tokens
\* liblangutil/Token.h: token classes used by the parser (TokenTraits).
ElementaryTypeNames == {"uint", "address", "bool"}
VisibilitySpecifiers == {"public", "internal", "private", "external"}
VariableVisibilitySpecifiers == {"public", "internal", "private"}
StateMutabilitySpecifiers == {"payable", "view", "pure"}
LocationSpecifiers == {"storage", "memory", "calldata"}
AssignmentOps == {"=", "+=", "-="}
UnaryOps == {"!", "~", "delete", "-"}
CountOps == {"++", "--"}
SubDenominations == {"wei", "ether", "seconds", "days"}
StringLiterals == {"\"s\"", "\"\"", "\"evmasm\"", "\"other\""}
NumberLiterals == {"0", "1", "2"}
Keywords ==
    {"pragma", "import", "abstract", "interface", "contract", "library",
     "struct", "enum", "function", "constructor", "fallback", "receive",
     "modifier", "event", "using", "is", "as", "for", "returns", "override",
     "virtual", "anonymous", "indexed", "constant", "immutable", "mapping",
     "if", "else", "while", "do", "continue", "break", "return", "throw",
     "try", "catch", "assembly", "emit", "new", "type", "case", "true",
     "false", "ILLEGAL"}
Punctuation ==
    {"{", "}", "(", ")", "[", "]", ";", ",", ".", ":", "?", "=>", "*",
     "+", "**", "||", "&&", "==", "<", "/"}
NonIdentifiers ==
    Keywords \cup Punctuation \cup ElementaryTypeNames \cup VisibilitySpecifiers
    \cup StateMutabilitySpecifiers \cup LocationSpecifiers \cup AssignmentOps
    \cup UnaryOps \cup CountOps \cup SubDenominations \cup StringLiterals
    \cup NumberLiterals

\* The kind of a token: every spelling that is not a keyword, an operator or
\* a literal is an Identifier whose literal is the spelling.
Kind(t) ==
    IF t \in StringLiterals THEN "StringLiteral"
    ELSE IF t \in NumberLiterals THEN "Number"
    ELSE IF t \in NonIdentifiers THEN t
    ELSE "Identifier"

\* TokenTraits::precedence: binary operators 4..14, assignment 2, `?` 3,
\* `,` 1, every other token 0.
Precedence(k) ==
    CASE k = "||" -> 4
      [] k = "&&" -> 5
      [] k = "==" -> 6
      [] k = "<" -> 7
      [] k \in {"+", "-"} -> 12
      [] k \in {"*", "/"} -> 13
      [] k = "**" -> 14
      [] k = "?" -> 3
      [] k \in AssignmentOps -> 2
      [] k = "," -> 1
      [] OTHER -> 0

\* --------------------------------------------------------------- AST nodes
\* A node: its id, its variant, its span [s, e), a name or operator, further
\* string attributes and its children in source order (Null: an absent child).
Null == [id |-> 0, kind |-> "null", s |-> 0, e |-> 0, name |-> "", attr |-> <<>>, kids |-> <<>>]
IsNull(n) == n.kind = "null"

\* ------------------------------------------------------------ the scanner
\* toks holds the spellings of the tokens and kinds their kinds, as scanned.
AtEOS(p) == p.pos > Len(p.toks)
Cur(p) == IF AtEOS(p) THEN "EOS" ELSE p.kinds[p.pos]
\* Scanner::currentLiteral: the text of an identifier, a number or a string
\* (the empty string for the string literal ""), empty for other tokens.
Lit(p) ==
    IF AtEOS(p) \/ p.toks[p.pos] = "\"\"" THEN ""
    ELSE IF p.kinds[p.pos] \in {"Identifier", "StringLiteral", "Number"} THEN p.toks[p.pos]
    ELSE ""
KindAt(p, i) == IF i > Len(p.toks) THEN "EOS" ELSE p.kinds[i]
Peek(p) == KindAt(p, p.pos + 1)
PeekNext(p) == KindAt(p, p.pos + 2)
\* Scanner::next: EOS is returned again once the end is reached.
ScannerNext(p) == IF AtEOS(p) THEN p ELSE [p EXCEPT !.pos = @ + 1]
CurStart(p) == 2 * p.pos - 1
CurEnd(p) == IF AtEOS(p) THEN 2 * p.pos - 1 ELSE 2 * p.pos
SourceLength(p) == 2 * Len(p.toks) + 1

\* ------------------------------------------------------ abnormal outcomes
\* thrown: a FatalError is unwinding.  fail: the call does not return and no
\* FatalError is raised: "diverge" (a loop is entered again in the state of
\* its previous iteration, so it never leaves), "nullptr" (a null node
\* pointer is dereferenced), "assert" (a solAssert fails).
Bad(p) == p.thrown \/ p.fail # ""
Ret(p, v) == [p EXCEPT !.val = v]
Diverge(p) == [p EXCEPT !.fail = "diverge"]
NullDereference(p) == [p EXCEPT !.fail = "nullptr"]
AssertionFailure(p) == [p EXCEPT !.fail = "assert"]

\* ------------------------------------------------- the diagnostic adapter
Diagnostic(id, sev, start, fatal) == [id |-> id, sev |-> sev, start |-> start, fatal |-> fatal]
ErrorCount(p) == Cardinality({i \in 1..Len(p.errs) : p.errs[i].sev = "error"})
\* ErrorReporter::hasErrors / hasExcessiveErrors
HasErrors(p) == ErrorCount(p) > 0
HasExcessiveErrors(p) == ErrorCount(p) > MaxErrorsAllowed
ParserErrorAt(p, id, start) ==
    [p EXCEPT !.errs = Append(@, Diagnostic(id, "error", start, FALSE))]
ParserError(p, id) == ParserErrorAt(p, id, CurStart(p))
ParserWarningAt(p, id, start) ==
    [p EXCEPT !.errs = Append(@, Diagnostic(id, "warning", start, FALSE))]
ParserWarning(p, id) == ParserWarningAt(p, id, CurStart(p))
FatalParserErrorAt(p, id, start) ==
    [p EXCEPT !.errs = Append(@, Diagnostic(id, "error", start, TRUE)), !.thrown = TRUE]
FatalParserError(p, id) == FatalParserErrorAt(p, id, CurStart(p))
\* BOOST_THROW_EXCEPTION(FatalError()) with no diagnostic
Throw(p) == [p EXCEPT !.thrown = TRUE]

\* ------------------------------------------------------ the recursion guard
\* RecursionGuard: the constructor raises 7319 if the depth would exceed the
\* limit and increments it otherwise; the destructor decrements it on every
\* exit of the scope.  run counts the grammar functions entered since the
\* innermost guard was taken.
Enter(p) ==
    IF p.depth + 1 > RecursionLimit THEN FatalParserError(p, 7319)
    ELSE [p EXCEPT !.depth = @ + 1, !.run = 0,
                   !.peakDepth = IF p.depth + 1 > @ THEN p.depth + 1 ELSE @]
Leave(p0, q) == [q EXCEPT !.depth = @ - 1, !.run = p0.run]
\* a grammar function that takes no guard
EnterU(p) ==
    [p EXCEPT !.run = @ + 1, !.peakRun = IF p.run + 1 > @ THEN p.run + 1 ELSE @]
LeaveU(p0, q) == [q EXCEPT !.run = p0.run]

\* ------------------------------------------------------ the span builder
\* ASTNodeFactory: the location under construction; e = -1 is "end not set".
Factory(p) == [s |-> CurStart(p), e |-> -1]
FactoryFrom(n) == [s |-> n.s, e |-> n.e]
MarkEnd(nf, p) == [nf EXCEPT !.e = CurEnd(p)]
SetLocation(nf, s, e) == [s |-> s, e |-> e]
SetLocationEmpty(nf) == [nf EXCEPT !.e = nf.s]
SetEndFromNode(nf, n) == [nf EXCEPT !.e = n.e]

\* Parser::nextID
NextID(p) == p.nid + 1

\* created lists the nodes in creation order and flagged the value of
\* m_insideModifier at each creation.
MakeNode(p, id, s, e, kind, name, attr, kids) ==
    LET n == [id |-> id, kind |-> kind, s |-> s, e |-> e, name |-> name,
              attr |-> attr, kids |-> kids]
    IN [p EXCEPT !.nid = id, !.val = n,
                 !.created = Append(@, [id |-> id, kind |-> kind, s |-> s, e |-> e]),
                 !.flagged = Append(@, p.insideModifier)]

\* createNode that does not mark an end that was never set
CreateNodeAEndNotMarked(p, nf, kind, name, attr, kids) ==
    MakeNode(p, NextID(p), nf.s, nf.e, kind, name, attr, kids)

\* ASTNodeFactory::createNode
CreateNodeA(p, nf, kind, name, attr, kids) ==
    LET e == IF nf.e < 0 THEN CurEnd(p) ELSE nf.e
    IN MakeNode(p, NextID(p), nf.s, e, kind, name, attr, kids)
CreateNode(p, nf, kind, name, kids) == CreateNodeA(p, nf, kind, name, <<>>, kids)

\* ------------------------------------------------ ParserBase token checks
\* expectToken: a mismatch is reported as an error and nothing is consumed;
\* a match is consumed if _advance.
ExpectToken(p, k, advance) ==
    IF Cur(p) # k THEN ParserError(p, 2314)
    ELSE IF advance THEN ScannerNext(p) ELSE p

RECURSIVE ConsumeUntil(_, _)
ConsumeUntil(p, k) ==
    IF Cur(p) = k \/ AtEOS(p) THEN p ELSE ConsumeUntil(ScannerNext(p), k)

\* expectTokenOrConsumeUntil: the recovery variant.  Tokens are consumed until
\* k or EOS; reaching k ends the recovery, reaching EOS is fatal.
\* resyncs counts the invocations.
ExpectTokenOrConsumeUntil(p0, k) ==
    LET p == [p0 EXCEPT !.resyncs = @ + 1] IN
    IF Cur(p) # k
    THEN LET q == ConsumeUntil(p, k)
         IN IF AtEOS(q)
            THEN FatalParserErrorAt([q EXCEPT !.inRec = TRUE], 1957, CurStart(p))
            ELSE ScannerNext([ParserWarning(q, 3796) EXCEPT !.inRec = FALSE])
    ELSE IF p.inRec
         THEN ScannerNext([ParserWarning(p, 3347) EXCEPT !.inRec = FALSE])
         ELSE ScannerNext(p)

\* Parser::getLiteralAndAdvance
GetLiteralAndAdvance(p) == Ret(ScannerNext(p), Lit(p))

\* Parser::expectIdentifierToken
ExpectIdentifierToken(p) == GetLiteralAndAdvance(ExpectToken(p, "Identifier", FALSE))

\* ================================================================ grammar
RECURSIVE Call(_, _)

\* parseIdentifier with a guard that is taken and never released
ParseIdentifierKeepingGuard(p0) ==
    LET p1 == Call("Enter", <<p0>>)
        nf == MarkEnd(Factory(p1), p1)
        p2 == ExpectIdentifierToken(p1)
    IN IF Bad(p1) THEN p1
       ELSE [CreateNode(p2, nf, "Identifier", p2.val, <<>>) EXCEPT !.run = p0.run]

\* Parser::parseIdentifier
ParseIdentifier(p0) ==
    LET p1 == Call("Enter", <<p0>>)
        nf == MarkEnd(Factory(p1), p1)
        p2 == ExpectIdentifierToken(p1)
    IN IF Bad(p1) THEN p1
       ELSE Leave(p0, CreateNode(p2, nf, "Identifier", p2.val, <<>>))

\* Parser::parseUserDefinedTypeName
UserDefinedPathLoop(p, nf, path) ==
    IF Cur(p) = "."
    THEN LET p1 == ScannerNext(p)
             p2 == ExpectIdentifierToken(p1)
         IN Call("UserDefinedPathLoop", <<p2, MarkEnd(nf, p1), Append(path, p2.val)>>)
    ELSE CreateNodeA(p, nf, "UserDefinedTypeName", "", path, <<>>)

ParseUserDefinedTypeName(p0) ==
    LET p1 == Call("Enter", <<p0>>)
        nf == MarkEnd(Factory(p1), p1)
        p2 == ExpectIdentifierToken(p1)
    IN IF Bad(p1) THEN p1
       ELSE Leave(p0, Call("UserDefinedPathLoop", <<p2, nf, <<p2.val>>>>))

\* Parser::createEmptyParameterList
CreateEmptyParameterList(p0) ==
    LET p1 == Call("Enter", <<p0>>)
    IN IF Bad(p1) THEN p1
       ELSE Leave(p0, CreateNode(p1, SetLocationEmpty(Factory(p1)), "ParameterList", "", <<>>))

\* Parser::parseExpression(ASTPointer<Expression> const&)
ParseExpression(p0, partial) ==
    LET p1 == Call("Enter", <<p0>>)
        p2 == Call("ParseBinaryExpression", <<p1, 4, partial>>)
        expression == p2.val
        rhs == Call("ParseExpression", <<ScannerNext(p2), Null>>)
        tr == Call("ParseExpression", <<ScannerNext(p2), Null>>)
        colon == Call("ExpectToken", <<tr, ":", TRUE>>)
        fl == Call("ParseExpression", <<colon, Null>>)
    IN IF Bad(p1) THEN p1
       ELSE IF p2.thrown \/ p2.fail # "" THEN Leave(p0, p2)
            ELSE IF Cur(p2) \in AssignmentOps
            THEN IF rhs.thrown \/ rhs.fail # "" THEN Leave(p0, rhs)
                 ELSE Leave(p0, CreateNode(rhs, SetEndFromNode(FactoryFrom(expression), rhs.val),
                                           "Assignment", Cur(p2), <<expression, rhs.val>>))
            ELSE IF Cur(p2) = "?"
            THEN IF tr.thrown \/ tr.fail # "" THEN Leave(p0, tr)
                 ELSE IF fl.thrown \/ fl.fail # "" THEN Leave(p0, fl)
                 ELSE Leave(p0, CreateNode(fl, SetEndFromNode(FactoryFrom(expression), fl.val),
                                           "Conditional", "", <<expression, tr.val, fl.val>>))
            ELSE Leave(p0, p2)

\* the loops of parseBinaryExpression parsing the right operand at the
\* precedence of the operator
BinaryLoopSamePrecedence(p, nf, expression, precedence, minPrecedence) ==
    IF precedence < minPrecedence THEN Ret(p, expression)
    ELSE IF Precedence(Cur(p)) = precedence
    THEN LET right == Call("ParseBinaryExpression", <<ScannerNext(p), precedence, Null>>)
             nf1 == SetEndFromNode(nf, right.val)
             made == CreateNode(right, nf1, "BinaryOperation", Cur(p),
                                <<expression, right.val>>)
         IN IF right.thrown \/ right.fail # "" THEN right
            ELSE Call("BinaryLoop", <<made, nf1, made.val, precedence, minPrecedence>>)
    ELSE Call("BinaryLoop", <<p, nf, expression, precedence - 1, minPrecedence>>)

\* parseBinaryExpression with the inner loop only: the operators of the
\* precedence of the first one are consumed, those of lower precedence not
BinaryLoopWithoutDescent(p, nf, expression, precedence, minPrecedence) ==
    IF precedence < minPrecedence THEN Ret(p, expression)
    ELSE IF Precedence(Cur(p)) = precedence
    THEN LET right == Call("ParseBinaryExpression", <<ScannerNext(p), precedence + 1, Null>>)
             nf1 == SetEndFromNode(nf, right.val)
             made == CreateNode(right, nf1, "BinaryOperation", Cur(p),
                                <<expression, right.val>>)
         IN IF right.thrown \/ right.fail # "" THEN right
            ELSE Call("BinaryLoop", <<made, nf1, made.val, precedence, minPrecedence>>)
    ELSE Ret(p, expression)

\* the two loops of parseBinaryExpression
BinaryLoop(p, nf, expression, precedence, minPrecedence) ==
    IF precedence < minPrecedence THEN Ret(p, expression)
    ELSE IF Precedence(Cur(p)) = precedence
    THEN LET right == Call("ParseBinaryExpression", <<ScannerNext(p), precedence + 1, Null>>)
             nf1 == SetEndFromNode(nf, right.val)
             made == CreateNode(right, nf1, "BinaryOperation", Cur(p),
                                <<expression, right.val>>)
         IN IF right.thrown \/ right.fail # "" THEN right
            ELSE Call("BinaryLoop", <<made, nf1, made.val, precedence, minPrecedence>>)
    ELSE Call("BinaryLoop", <<p, nf, expression, precedence - 1, minPrecedence>>)

\* Parser::parseBinaryExpression
ParseBinaryExpression(p0, minPrecedence, partial) ==
    LET p1 == Call("Enter", <<p0>>)
        p2 == Call("ParseUnaryExpression", <<p1, partial>>)
    IN IF Bad(p1) THEN p1
       ELSE IF p2.thrown \/ p2.fail # "" THEN Leave(p0, p2)
            ELSE Leave(p0, Call("BinaryLoop", <<p2, FactoryFrom(p2.val), p2.val,
                                      Precedence(Cur(p2)), minPrecedence>>))

\* parseUnaryExpression without its recursion guard
ParseUnaryExpressionUnguarded(p0, partial) ==
    LET p1 == EnterU(p0)
        nf == IF IsNull(partial) THEN Factory(p1) ELSE FactoryFrom(partial)
        token == Cur(p1)
        sub == Call("ParseUnaryExpression", <<ScannerNext(p1), Null>>)
        lhs == Call("ParseLeftHandSideExpression", <<p1, partial>>)
    IN IF IsNull(partial) /\ (token \in UnaryOps \/ token \in CountOps)
            THEN IF sub.thrown \/ sub.fail # "" THEN LeaveU(p0, sub)
                 ELSE LeaveU(p0, CreateNodeA(sub, SetEndFromNode(nf, sub.val), "UnaryOperation",
                                             token, <<"prefix">>, <<sub.val>>))
            ELSE IF lhs.thrown \/ lhs.fail # "" THEN LeaveU(p0, lhs)
            ELSE IF Cur(lhs) \notin CountOps THEN LeaveU(p0, lhs)
            ELSE LeaveU(p0, CreateNodeA(ScannerNext(lhs), MarkEnd(nf, lhs), "UnaryOperation",
                                        Cur(lhs), <<"postfix">>, <<lhs.val>>))

\* Parser::parseUnaryExpression
ParseUnaryExpression(p0, partial) ==
    LET p1 == Call("Enter", <<p0>>)
        nf == IF IsNull(partial) THEN Factory(p1) ELSE FactoryFrom(partial)
        token == Cur(p1)
        sub == Call("ParseUnaryExpression", <<ScannerNext(p1), Null>>)
        lhs == Call("ParseLeftHandSideExpression", <<p1, partial>>)
    IN IF Bad(p1) THEN p1
       ELSE IF IsNull(partial) /\ (token \in UnaryOps \/ token \in CountOps)
            THEN IF sub.thrown \/ sub.fail # "" THEN Leave(p0, sub)
                 ELSE Leave(p0, CreateNodeA(sub, SetEndFromNode(nf, sub.val), "UnaryOperation",
                                            token, <<"prefix">>, <<sub.val>>))
            ELSE IF lhs.thrown \/ lhs.fail # "" THEN Leave(p0, lhs)
            ELSE IF Cur(lhs) \notin CountOps THEN Leave(p0, lhs)
            ELSE Leave(p0, CreateNodeA(ScannerNext(lhs), MarkEnd(nf, lhs), "UnaryOperation",
                                       Cur(lhs), <<"postfix">>, <<lhs.val>>))

\* the test of the LBrace case that looks for the ":" only
FollowedByNamedOptionColonOnly(p) == PeekNext(p) = ":"

\* the test of the LBrace case of parseLeftHandSideExpression: function call
\* options only if the `{` is followed by <identifier> ":"
FollowedByNamedOption(p) == Peek(p) = "Identifier" /\ PeekNext(p) = ":"

\* the suffix loop of parseLeftHandSideExpression
SuffixLoop(p, nf, expression) ==
    CASE Cur(p) = "[" ->
           LET p1 == ScannerNext(p)
               hasIndex == Cur(p1) # "]" /\ Cur(p1) # ":"
               p2 == IF hasIndex THEN Call("ParseExpression", <<p1, Null>>) ELSE Ret(p1, Null)
               index == p2.val
               p3 == Call("ExpectToken", <<p2, ":", TRUE>>)
               hasEnd == Cur(p3) # "]"
               p4 == IF hasEnd THEN Call("ParseExpression", <<p3, Null>>) ELSE Ret(p3, Null)
               endIndex == p4.val
               nfR == MarkEnd(nf, p4)
               made == CreateNode(Call("ExpectToken", <<p4, "]", TRUE>>), nfR, "IndexRangeAccess", "",
                                  <<expression, index, endIndex>>)
               nfI == MarkEnd(nf, p2)
               madeI == CreateNode(Call("ExpectToken", <<p2, "]", TRUE>>), nfI, "IndexAccess", "",
                                   <<expression, index>>)
           IN IF p2.thrown \/ p2.fail # "" THEN p2
              ELSE IF Cur(p2) = ":"
              THEN IF p4.thrown \/ p4.fail # "" THEN p4 ELSE Call("SuffixLoop", <<made, nfR, made.val>>)
              ELSE Call("SuffixLoop", <<madeI, nfI, madeI.val>>)
      [] Cur(p) = "." ->
           LET p1 == ScannerNext(p)
               nf1 == MarkEnd(nf, p1)
               madeA == CreateNode(p1, nf1, "MemberAccess", "address", <<expression>>)
               p2 == ExpectIdentifierToken(p1)
               madeM == CreateNode(p2, nf1, "MemberAccess", p2.val, <<expression>>)
           IN IF Cur(p1) = "address"
              THEN Call("SuffixLoop", <<ScannerNext(madeA), nf1, madeA.val>>)
              ELSE Call("SuffixLoop", <<madeM, nf1, madeM.val>>)
      [] Cur(p) = "(" ->
           LET p1 == Call("ParseFunctionCallArguments", <<ScannerNext(p)>>)
               nf1 == MarkEnd(nf, p1)
               made == CreateNodeA(Call("ExpectToken", <<p1, ")", TRUE>>), nf1, "FunctionCall", "",
                                   p1.val.names, <<expression>> \o p1.val.exprs)
           IN IF p1.thrown \/ p1.fail # "" THEN p1 ELSE Call("SuffixLoop", <<made, nf1, made.val>>)
      [] Cur(p) = "{" ->
           IF ~FollowedByNamedOption(p) THEN Ret(p, expression)
           ELSE LET p1 == Call("ParseNamedArguments", <<Call("ExpectToken", <<p, "{", TRUE>>)>>)
                    nf1 == MarkEnd(nf, p1)
                    made == CreateNodeA(Call("ExpectToken", <<p1, "}", TRUE>>), nf1,
                                        "FunctionCallOptions", "", p1.val.names,
                                        <<expression>> \o p1.val.exprs)
                IN IF p1.thrown \/ p1.fail # "" THEN p1 ELSE Call("SuffixLoop", <<made, nf1, made.val>>)
      [] OTHER -> Ret(p, expression)

\* Parser::parseLeftHandSideExpression
ParseLeftHandSideExpression(p0, partial) ==
    LET p1 == Call("Enter", <<p0>>)
        nf == IF IsNull(partial) THEN Factory(p1) ELSE FactoryFrom(partial)
        \* new <typeName>
        pn == Call("ParseTypeName", <<Call("ExpectToken", <<p1, "new", TRUE>>)>>)
        nfn == SetEndFromNode(nf, pn.val)
        newExpr == CreateNode(pn, nfn, "NewExpression", "", <<pn.val>>)
        \* payable
        pp == Call("ExpectToken", <<p1, "payable", TRUE>>)
        nfp == MarkEnd(nf, pp)
        payType == CreateNodeA(pp, nfp, "ElementaryTypeName", "address", <<"payable">>, <<>>)
        payExpr == CreateNode(payType, nfp, "ElementaryTypeNameExpression", "", <<payType.val>>)
        payChecked == Ret(Call("ExpectToken", <<payExpr, "(", FALSE>>), payExpr.val)
        prim == Call("ParsePrimaryExpression", <<p1>>)
    IN IF Bad(p1) THEN p1
       ELSE IF ~IsNull(partial) THEN Leave(p0, Call("SuffixLoop", <<p1, nf, partial>>))
            ELSE IF Cur(p1) = "new"
            THEN IF pn.thrown \/ pn.fail # "" THEN Leave(p0, pn) ELSE Leave(p0, Call("SuffixLoop", <<newExpr, nfn, newExpr.val>>))
            ELSE IF Cur(p1) = "payable"
            THEN Leave(p0, Call("SuffixLoop", <<payChecked, nfp, payChecked.val>>))
            ELSE IF prim.thrown \/ prim.fail # "" THEN Leave(p0, prim)
            ELSE Leave(p0, Call("SuffixLoop", <<prim, nf, prim.val>>))

\* tuples records every TupleExpression node created.
TupleMade(q) == [q EXCEPT !.tuples = Append(@, q.val)]

\* the component loop pushing a null component for an omitted element of an
\* inline array too
TupleLoopPushingOmitted(p, components, oppositeToken, isArray) ==
    LET p1 == IF Cur(p) # "," /\ Cur(p) # oppositeToken THEN Call("ParseExpression", <<p, Null>>)
              ELSE IF isArray THEN Ret(Call("ParserError", <<p, 4799>>), Null)
              ELSE Ret(p, Null)
        pushed == Append(components, p1.val)
        p2 == Call("ExpectToken", <<p1, ",", TRUE>>)
    IN IF p1.thrown \/ p1.fail # "" THEN p1
       ELSE IF Cur(p1) = oppositeToken THEN Ret(p1, pushed)
       ELSE Call("TupleLoop", <<p2, pushed, oppositeToken, isArray>>)

\* the component loop of a tuple or an inline array
TupleLoop(p, components, oppositeToken, isArray) ==
    LET p1 == IF Cur(p) # "," /\ Cur(p) # oppositeToken THEN Call("ParseExpression", <<p, Null>>)
              ELSE IF isArray THEN Ret(Call("ParserError", <<p, 4799>>), Null)
              ELSE Ret(p, Null)
        pushed == IF (Cur(p) = "," \/ Cur(p) = oppositeToken) /\ isArray
                  THEN components ELSE Append(components, p1.val)
        p2 == Call("ExpectToken", <<p1, ",", TRUE>>)
    IN IF p1.thrown \/ p1.fail # "" THEN p1
       ELSE IF Cur(p1) = oppositeToken THEN Ret(p1, pushed)
       ELSE Call("TupleLoop", <<p2, pushed, oppositeToken, isArray>>)

\* Parser::parsePrimaryExpression
ParsePrimaryExpression(p0) ==
    LET p1 == Call("Enter", <<p0>>)
        nf == Factory(p1)
        token == Cur(p1)
        \* number with a sub-denomination on the next token
        pd == ScannerNext(p1)
        \* adjacent string literals of the same kind are concatenated
        strEnd == CHOOSE i \in p1.pos..Len(p1.toks) :
                     /\ \A j \in p1.pos..i : KindAt(p1, j) = token
                     /\ KindAt(p1, i + 1) # token
        ps == [p1 EXCEPT !.pos = strEnd]
        psn == ScannerNext(ps)
        \* tuple or inline array
        oppositeToken == IF token = "(" THEN ")" ELSE "]"
        isArray == token = "["
        pt == ScannerNext(p1)
        comps == IF Cur(pt) # oppositeToken THEN Call("TupleLoop", <<pt, <<>>, oppositeToken, isArray>>)
                 ELSE Ret(pt, <<>>)
        elemType == CreateNode(p1, nf, "ElementaryTypeName", token, <<>>)
        elemExpr == CreateNode(elemType, nf, "ElementaryTypeNameExpression", "",
                               <<elemType.val>>)
    IN IF Bad(p1) THEN p1
       ELSE CASE token \in {"true", "false"} ->
                   Leave(p0, CreateNode(ScannerNext(p1), MarkEnd(nf, p1), "Literal", token, <<>>))
              [] token = "Number" ->
                   IF Peek(p1) \in SubDenominations
                   THEN Leave(p0, CreateNodeA(ScannerNext(pd), MarkEnd(nf, pd), "Literal", Lit(p1),
                                              <<Cur(pd)>>, <<>>))
                   ELSE Leave(p0, CreateNode(ScannerNext(p1), MarkEnd(nf, p1), "Literal", Lit(p1), <<>>))
              [] token = "StringLiteral" ->
                   IF Cur(psn) = "ILLEGAL" THEN Leave(p0, Call("FatalParserError", <<psn, 5428>>))
                   ELSE Leave(p0, CreateNode(psn, MarkEnd(nf, ps), "Literal", "string", <<>>))
              [] token = "Identifier" ->
                   Leave(p0, CreateNode(ScannerNext(p1), MarkEnd(nf, p1), "Identifier", Lit(p1), <<>>))
              [] token = "type" ->
                   Leave(p0, CreateNode(ScannerNext(p1), MarkEnd(nf, p1), "Identifier", "type", <<>>))
              [] token \in {"(", "["} ->
                   IF comps.thrown \/ comps.fail # "" THEN Leave(p0, comps)
                   ELSE Leave(p0, TupleMade(CreateNodeA(Call("ExpectToken", <<comps, oppositeToken, TRUE>>),
                                              MarkEnd(nf, comps), "TupleExpression", "",
                                              IF isArray THEN <<"array">> ELSE <<>>, comps.val)))
              [] token = "ILLEGAL" -> Leave(p0, Call("FatalParserError", <<p1, 8936>>))
              [] token \in ElementaryTypeNames -> Leave(p0, Ret(ScannerNext(elemExpr), elemExpr.val))
              [] OTHER -> Leave(p0, Call("FatalParserError", <<p1, 6933>>))

\* Parser::parseFunctionCallListArguments
ArgumentLoop(p, arguments) ==
    IF Cur(p) = ")" THEN Ret(p, arguments)
    ELSE LET p1 == Call("ParseExpression", <<Call("ExpectToken", <<p, ",", TRUE>>), Null>>)
         IN IF p1.thrown \/ p1.fail # "" THEN p1 ELSE Call("ArgumentLoop", <<p1, Append(arguments, p1.val)>>)

ParseFunctionCallListArguments(p0) ==
    LET p1 == Call("Enter", <<p0>>)
        first == Call("ParseExpression", <<p1, Null>>)
    IN IF Bad(p1) THEN p1
       ELSE IF Cur(p1) = ")" THEN Leave(p0, Ret(p1, <<>>))
            ELSE IF first.thrown \/ first.fail # "" THEN Leave(p0, first)
            ELSE Leave(p0, Call("ArgumentLoop", <<first, <<first.val>>>>))

\* Parser::parseFunctionCallArguments
ParseFunctionCallArguments(p0) ==
    LET p1 == Call("Enter", <<p0>>)
        named == Call("ParseNamedArguments", <<Call("ExpectToken", <<p1, "{", TRUE>>)>>)
        list == Call("ParseFunctionCallListArguments", <<p1>>)
    IN IF Bad(p1) THEN p1
       ELSE IF Cur(p1) = "{"
            THEN IF named.thrown \/ named.fail # "" THEN Leave(p0, named)
                 ELSE Leave(p0, Ret(Call("ExpectToken", <<named, "}", TRUE>>), named.val))
            ELSE IF list.thrown \/ list.fail # "" THEN Leave(p0, list)
            ELSE Leave(p0, Ret(list, [exprs |-> list.val, names |-> <<>>]))

\* the loop of parseNamedArguments
NamedLoop(p, exprs, names, first) ==
    IF Cur(p) = "}" THEN Ret(p, [exprs |-> exprs, names |-> names])
    ELSE LET p1 == IF first THEN p ELSE Call("ExpectToken", <<p, ",", TRUE>>)
             p2 == ExpectIdentifierToken(p1)
             p3 == Call("ParseExpression", <<Call("ExpectToken", <<p2, ":", TRUE>>), Null>>)
             p4 == IF Cur(p3) = "," /\ Peek(p3) = "}"
                   THEN ScannerNext(Call("ParserError", <<p3, 2074>>)) ELSE p3
         IN IF p3.thrown \/ p3.fail # "" THEN p3
            ELSE Call("NamedLoop", <<p4, Append(exprs, p3.val), Append(names, p2.val), FALSE>>)

\* Parser::parseNamedArguments (takes no recursion guard)
ParseNamedArguments(p0) ==
    LET p1 == EnterU(p0)
    IN LeaveU(p0, Call("NamedLoop", <<p1, <<>>, <<>>, TRUE>>))

\* ------------------------------------------------------------ type names
BoolStr(b) == IF b THEN "true" ELSE "false"

\* VarDeclParserOptions
VarDeclParserOptions ==
    [isStateVariable |-> FALSE, allowIndexed |-> FALSE, allowEmptyName |-> FALSE,
     allowInitialValue |-> FALSE, allowLocationSpecifier |-> FALSE]

\* Parser::parseVisibilitySpecifier / parseStateMutability: the current token
\* names the value and is consumed.
ParseVisibilitySpecifier(p) == Ret(ScannerNext(p), Cur(p))
ParseStateMutability(p) == Ret(ScannerNext(p), Cur(p))

\* the loop of parseOverrideSpecifier: an iteration at EOS consumes nothing
\* and leaves the loop in the state it was entered in.
OverrideLoop(p, overrides) ==
    LET p1 == Call("ParseUserDefinedTypeName", <<p>>)
        p2 == Call("ExpectToken", <<p1, ",", TRUE>>)
    IN IF p1.thrown \/ p1.fail # "" THEN p1
       ELSE IF Cur(p1) = ")" THEN Ret(p1, Append(overrides, p1.val))
       ELSE IF p2.pos = p.pos THEN Diverge(p2)
       ELSE Call("OverrideLoop", <<p2, Append(overrides, p1.val)>>)

\* Parser::parseOverrideSpecifier (takes no recursion guard)
ParseOverrideSpecifier(p0) ==
    LET p1 == EnterU(p0)
        nf == MarkEnd(Factory(p1), p1)
        p2 == ScannerNext(p1)
        list == Call("OverrideLoop", <<ScannerNext(p2), <<>>>>)
    IN IF Cur(p2) = "("
         THEN IF list.thrown \/ list.fail # "" THEN LeaveU(p0, list)
              ELSE LeaveU(p0, CreateNode(Call("ExpectToken", <<list, ")", TRUE>>), MarkEnd(nf, list),
                                         "OverrideSpecifier", "", list.val))
         ELSE LeaveU(p0, CreateNode(p2, nf, "OverrideSpecifier", "", <<>>))

\* Parser::parseTypeNameSuffix: the array brackets after a type name.  The
\* factory is the caller's and keeps its start.
TypeNameSuffixLoop(p, type, nf) ==
    IF Cur(p) # "[" THEN Ret(p, type)
    ELSE LET p1 == ScannerNext(p)
             p2 == IF Cur(p1) # "]" THEN Call("ParseExpression", <<p1, Null>>) ELSE Ret(p1, Null)
             nf1 == MarkEnd(nf, p2)
             made == CreateNode(Call("ExpectToken", <<p2, "]", TRUE>>), nf1, "ArrayTypeName", "",
                                <<type, p2.val>>)
         IN IF p2.thrown \/ p2.fail # "" THEN p2 ELSE Call("TypeNameSuffixLoop", <<made, made.val, nf1>>)

ParseTypeNameSuffix(p0, type, nf) ==
    LET p1 == Call("Enter", <<p0>>)
    IN IF p1.thrown \/ p1.fail # "" THEN p1 ELSE Leave(p0, Call("TypeNameSuffixLoop", <<p1, type, nf>>))

\* Parser::parseTypeName
ParseTypeName(p0) ==
    LET p1 == Call("Enter", <<p0>>)
        nf == Factory(p1)
        token == Cur(p1)
        \* elementary type, with a state mutability only for address
        nfe == MarkEnd(Factory(p1), p1)
        pe == ScannerNext(p1)
        hasMut == Cur(pe) \in StateMutabilitySpecifiers
        pm == IF ~hasMut THEN pe
              ELSE IF token = "address" THEN Call("ParseStateMutability", <<pe>>)
              ELSE ScannerNext(Call("ParserError", <<pe, 9106>>))
        nfm == IF hasMut /\ token = "address" THEN MarkEnd(nfe, pe) ELSE nfe
        mut == IF hasMut /\ token = "address" THEN <<Cur(pe)>>
               ELSE IF token = "address" THEN <<"nonpayable">> ELSE <<>>
        elem == CreateNodeA(pm, nfm, "ElementaryTypeName", token, mut, <<>>)
        type == CASE token \in ElementaryTypeNames -> elem
                  [] token = "function" -> Call("ParseFunctionType", <<p1>>)
                  [] token = "mapping" -> Call("ParseMapping", <<p1>>)
                  [] token = "Identifier" -> Call("ParseUserDefinedTypeName", <<p1>>)
                  [] OTHER -> Call("FatalParserError", <<p1, 3546>>)
    IN IF Bad(p1) THEN p1
       ELSE IF type.thrown \/ type.fail # "" THEN Leave(p0, type) ELSE Leave(p0, Call("ParseTypeNameSuffix", <<type, type.val, nf>>))

\* Parser::parseFunctionType
ParseFunctionType(p0) ==
    LET p1 == Call("Enter", <<p0>>)
        nf == Factory(p1)
        header == Call("ParseFunctionHeader", <<Call("ExpectToken", <<p1, "function", TRUE>>), TRUE>>)
        h == header.val
    IN IF Bad(p1) THEN p1
       ELSE IF header.thrown \/ header.fail # "" THEN Leave(p0, header)
            ELSE Leave(p0, CreateNodeA(header, nf, "FunctionTypeName", "",
                                       <<h.visibility, h.stateMutability>>,
                                       <<h.parameters, h.returnParameters>>))

\* Parser::parseMapping
ParseMapping(p0) ==
    LET p1 == Call("Enter", <<p0>>)
        nf == Factory(p1)
        p2 == Call("ExpectToken", <<Call("ExpectToken", <<p1, "mapping", TRUE>>), "(", TRUE>>)
        token == Cur(p2)
        elemKey == CreateNode(p2, Factory(p2), "ElementaryTypeName", token, <<>>)
        key == CASE token = "Identifier" -> Call("ParseUserDefinedTypeName", <<p2>>)
                 [] token \in ElementaryTypeNames -> Ret(ScannerNext(elemKey), elemKey.val)
                 [] OTHER -> Call("FatalParserError", <<p2, 1005>>)
        value == Call("ParseTypeName", <<Call("ExpectToken", <<key, "=>", TRUE>>)>>)
    IN IF Bad(p1) THEN p1
       ELSE IF key.thrown \/ key.fail # "" THEN Leave(p0, key)
            ELSE IF value.thrown \/ value.fail # "" THEN Leave(p0, value)
            ELSE Leave(p0, CreateNode(Call("ExpectToken", <<value, ")", TRUE>>), MarkEnd(nf, value), "Mapping", "",
                                      <<key.val, value.val>>))

\* ------------------------------------------------- variable declarations
\* the modifier loop of parseVariableDeclaration; m holds the modifiers seen
VarDeclLoop(p, options, nf, m) ==
    LET token == Cur(p)
        vis == Call("ParseVisibilitySpecifier", <<p>>)
        ovr == Call("ParseOverrideSpecifier", <<IF ~IsNull(m.overrides) THEN Call("ParserError", <<p, 9125>>) ELSE p>>)
    IN IF options.isStateVariable /\ token \in VariableVisibilitySpecifiers
       THEN IF m.visibility # "default"
            THEN Call("VarDeclLoop", <<ScannerNext(Call("ParserError", <<p, 4110>>)), options, MarkEnd(nf, p), m>>)
            ELSE Call("VarDeclLoop", <<vis, options, MarkEnd(nf, p), [m EXCEPT !.visibility = vis.val]>>)
       ELSE IF options.isStateVariable /\ token = "override"
       THEN IF ovr.thrown \/ ovr.fail # "" THEN ovr
            ELSE Call("VarDeclLoop", <<ovr, options, nf, [m EXCEPT !.overrides = ovr.val]>>)
       ELSE IF options.allowIndexed /\ token = "indexed"
       THEN Call("VarDeclLoop", <<ScannerNext(p), options, MarkEnd(nf, p), [m EXCEPT !.isIndexed = TRUE]>>)
       ELSE IF token \in {"constant", "immutable"}
       THEN IF m.mutability # "mutable"
            THEN Call("VarDeclLoop", <<ScannerNext(Call("ParserError", <<p, 3109>>)), options, MarkEnd(nf, p), m>>)
            ELSE Call("VarDeclLoop", <<ScannerNext(p), options, MarkEnd(nf, p), [m EXCEPT !.mutability = token]>>)
       ELSE IF options.allowLocationSpecifier /\ token \in LocationSpecifiers
       THEN IF m.location # "unspecified"
            THEN Call("VarDeclLoop", <<ScannerNext(Call("ParserError", <<p, 3548>>)), options, MarkEnd(nf, p), m>>)
            ELSE Call("VarDeclLoop", <<ScannerNext(p), options, MarkEnd(nf, p), [m EXCEPT !.location = token]>>)
       ELSE Ret(p, [m |-> m, nf |-> nf])

\* Parser::parseVariableDeclaration
ParseVariableDeclaration(p0, options, lookAheadArrayType) ==
    LET p1 == Call("Enter", <<p0>>)
        nf0 == IF IsNull(lookAheadArrayType) THEN Factory(p1)
               ELSE FactoryFrom(lookAheadArrayType)
        pt == IF IsNull(lookAheadArrayType) THEN Call("ParseTypeName", <<p1>>)
              ELSE Ret(p1, lookAheadArrayType)
        type == pt.val
        nf1 == SetEndFromNode(nf0, type)
        loop == Call("VarDeclLoop", <<pt, options, nf1,
                    [visibility |-> "default", overrides |-> Null, isIndexed |-> FALSE,
                     mutability |-> "mutable", location |-> "unspecified"]>>)
        m == loop.val.m
        emptyName == options.allowEmptyName /\ Cur(loop) # "Identifier"
        named == IF emptyName THEN Ret(loop, "") ELSE ExpectIdentifierToken(loop)
        nf2 == IF emptyName THEN loop.val.nf ELSE MarkEnd(loop.val.nf, loop)
        hasValue == options.allowInitialValue /\ Cur(named) = "="
        pv == IF hasValue THEN Call("ParseExpression", <<ScannerNext(named), Null>>) ELSE Ret(named, Null)
        nf3 == IF hasValue THEN SetEndFromNode(nf2, pv.val) ELSE nf2
    IN IF Bad(p1) THEN p1
       ELSE IF pt.thrown \/ pt.fail # "" THEN Leave(p0, pt)
            ELSE IF type.kind = "FunctionTypeName" /\ options.isStateVariable /\ Cur(pt) = "{"
            THEN Leave(p0, Call("FatalParserError", <<pt, 2915>>))
            ELSE IF loop.thrown \/ loop.fail # "" THEN Leave(p0, loop)
            ELSE IF pv.thrown \/ pv.fail # "" THEN Leave(p0, pv)
            ELSE Leave(p0, CreateNodeA(pv, nf3, "VariableDeclaration", named.val,
                                       <<m.visibility, BoolStr(options.isStateVariable),
                                         BoolStr(m.isIndexed), m.mutability, m.location>>,
                                       <<type, pv.val, m.overrides>>))

\* Parser::parseParameterList
ParameterLoop(p, options, parameters) ==
    IF Cur(p) = ")" THEN Ret(p, parameters)
    ELSE IF Cur(p) = "," /\ Peek(p) = ")" THEN Call("FatalParserError", <<p, 7591>>)
    ELSE LET p1 == Call("ParseVariableDeclaration", <<Call("ExpectToken", <<p, ",", TRUE>>), options, Null>>)
         IN IF p1.thrown \/ p1.fail # "" THEN p1 ELSE Call("ParameterLoop", <<p1, options, Append(parameters, p1.val)>>)

ParseParameterList(p0, opts, allowEmpty) ==
    LET p1 == Call("Enter", <<p0>>)
        nf == Factory(p1)
        options == [opts EXCEPT !.allowEmptyName = TRUE]
        p2 == Call("ExpectToken", <<p1, "(", TRUE>>)
        first == Call("ParseVariableDeclaration", <<p2, options, Null>>)
        list == IF ~allowEmpty \/ Cur(p2) # ")"
                THEN IF first.thrown \/ first.fail # "" THEN first ELSE Call("ParameterLoop", <<first, options, <<first.val>>>>)
                ELSE Ret(p2, <<>>)
    IN IF Bad(p1) THEN p1
       ELSE IF list.thrown \/ list.fail # "" THEN Leave(p0, list)
            ELSE Leave(p0, CreateNode(ScannerNext(list), MarkEnd(nf, list), "ParameterList", "", list.val))

\* Parser::parseModifierInvocation
ParseModifierInvocation(p0) ==
    LET p1 == Call("Enter", <<p0>>)
        nf == Factory(p1)
        name == Call("ParseIdentifier", <<p1>>)
        args == Call("ParseFunctionCallListArguments", <<ScannerNext(name)>>)
    IN IF Bad(p1) THEN p1
       ELSE IF name.thrown \/ name.fail # "" THEN Leave(p0, name)
            ELSE IF Cur(name) = "("
            THEN IF args.thrown \/ args.fail # "" THEN Leave(p0, args)
                 ELSE Leave(p0, CreateNodeA(Call("ExpectToken", <<args, ")", TRUE>>), MarkEnd(nf, args),
                                            "ModifierInvocation", "", <<"arguments">>,
                                            <<name.val>> \o args.val))
            ELSE Leave(p0, CreateNode(name, SetEndFromNode(nf, name.val), "ModifierInvocation", "",
                                      <<name.val>>))

\* the specifier loop of parseFunctionHeader consuming a repeated state
\* mutability without a diagnostic
HeaderLoopSilentMutability(p, isStateVariable, r) ==
    LET token == Cur(p)
        inv == Call("ParseModifierInvocation", <<p>>)
        vis == Call("ParseVisibilitySpecifier", <<p>>)
        mut == Call("ParseStateMutability", <<p>>)
        ovr == Call("ParseOverrideSpecifier", <<IF ~IsNull(r.overrides) THEN Call("ParserError", <<p, 1827>>) ELSE p>>)
        virt == ScannerNext(IF r.isVirtual THEN Call("ParserError", <<p, 6879>>) ELSE p)
    IN IF ~isStateVariable /\ token = "Identifier"
       THEN IF inv.thrown \/ inv.fail # "" THEN inv
            ELSE Call("HeaderLoop", <<inv, isStateVariable, [r EXCEPT !.modifiers = Append(@, inv.val)]>>)
       ELSE IF token \in VisibilitySpecifiers
       THEN IF r.visibility # "default"
            THEN IF isStateVariable /\ r.visibility \in {"external", "internal"}
                 THEN Ret(p, r)
                 ELSE Call("HeaderLoop", <<ScannerNext(Call("ParserError", <<p, 9439>>)), isStateVariable, r>>)
            ELSE Call("HeaderLoop", <<vis, isStateVariable, [r EXCEPT !.visibility = vis.val]>>)
       ELSE IF token \in StateMutabilitySpecifiers
       THEN IF r.stateMutability # "nonpayable"
            THEN Call("HeaderLoop", <<ScannerNext(p), isStateVariable, r>>)
            ELSE Call("HeaderLoop", <<mut, isStateVariable, [r EXCEPT !.stateMutability = mut.val]>>)
       ELSE IF ~isStateVariable /\ token = "override"
       THEN IF ovr.thrown \/ ovr.fail # "" THEN ovr
            ELSE Call("HeaderLoop", <<ovr, isStateVariable, [r EXCEPT !.overrides = ovr.val]>>)
       ELSE IF ~isStateVariable /\ token = "virtual"
       THEN Call("HeaderLoop", <<virt, isStateVariable, [r EXCEPT !.isVirtual = TRUE]>>)
       ELSE Ret(p, r)

\* the specifier loop of parseFunctionHeader leaving the loop of a function
\* type as soon as the visibility is set to external or internal
HeaderLoopBreakingAfterVisibility(p, isStateVariable, r) ==
    LET token == Cur(p)
        inv == Call("ParseModifierInvocation", <<p>>)
        vis == Call("ParseVisibilitySpecifier", <<p>>)
        mut == Call("ParseStateMutability", <<p>>)
        ovr == Call("ParseOverrideSpecifier", <<IF ~IsNull(r.overrides) THEN Call("ParserError", <<p, 1827>>) ELSE p>>)
        virt == ScannerNext(IF r.isVirtual THEN Call("ParserError", <<p, 6879>>) ELSE p)
    IN IF ~isStateVariable /\ token = "Identifier"
       THEN IF inv.thrown \/ inv.fail # "" THEN inv
            ELSE Call("HeaderLoop", <<inv, isStateVariable, [r EXCEPT !.modifiers = Append(@, inv.val)]>>)
       ELSE IF token \in VisibilitySpecifiers
       THEN IF r.visibility # "default"
            THEN IF isStateVariable /\ r.visibility \in {"external", "internal"}
                 THEN Ret(p, r)
                 ELSE Call("HeaderLoop", <<ScannerNext(Call("ParserError", <<p, 9439>>)), isStateVariable, r>>)
            ELSE IF isStateVariable /\ vis.val \in {"external", "internal"}
            THEN Ret(vis, [r EXCEPT !.visibility = vis.val])
            ELSE Call("HeaderLoop", <<vis, isStateVariable, [r EXCEPT !.visibility = vis.val]>>)
       ELSE IF token \in StateMutabilitySpecifiers
       THEN IF r.stateMutability # "nonpayable"
            THEN Call("HeaderLoop", <<ScannerNext(Call("ParserError", <<p, 9680>>)), isStateVariable, r>>)
            ELSE Call("HeaderLoop", <<mut, isStateVariable, [r EXCEPT !.stateMutability = mut.val]>>)
       ELSE IF ~isStateVariable /\ token = "override"
       THEN IF ovr.thrown \/ ovr.fail # "" THEN ovr
            ELSE Call("HeaderLoop", <<ovr, isStateVariable, [r EXCEPT !.overrides = ovr.val]>>)
       ELSE IF ~isStateVariable /\ token = "virtual"
       THEN Call("HeaderLoop", <<virt, isStateVariable, [r EXCEPT !.isVirtual = TRUE]>>)
       ELSE Ret(p, r)

\* the specifier loop of parseFunctionHeader; r is the result so far
HeaderLoop(p, isStateVariable, r) ==
    LET token == Cur(p)
        inv == Call("ParseModifierInvocation", <<p>>)
        vis == Call("ParseVisibilitySpecifier", <<p>>)
        mut == Call("ParseStateMutability", <<p>>)
        ovr == Call("ParseOverrideSpecifier", <<IF ~IsNull(r.overrides) THEN Call("ParserError", <<p, 1827>>) ELSE p>>)
        virt == ScannerNext(IF r.isVirtual THEN Call("ParserError", <<p, 6879>>) ELSE p)
    IN IF ~isStateVariable /\ token = "Identifier"
       THEN IF inv.thrown \/ inv.fail # "" THEN inv
            ELSE Call("HeaderLoop", <<inv, isStateVariable, [r EXCEPT !.modifiers = Append(@, inv.val)]>>)
       ELSE IF token \in VisibilitySpecifiers
       THEN IF r.visibility # "default"
            THEN IF isStateVariable /\ r.visibility \in {"external", "internal"}
                 THEN Ret(p, r)
                 ELSE Call("HeaderLoop", <<ScannerNext(Call("ParserError", <<p, 9439>>)), isStateVariable, r>>)
            ELSE Call("HeaderLoop", <<vis, isStateVariable, [r EXCEPT !.visibility = vis.val]>>)
       ELSE IF token \in StateMutabilitySpecifiers
       THEN IF r.stateMutability # "nonpayable"
            THEN Call("HeaderLoop", <<ScannerNext(Call("ParserError", <<p, 9680>>)), isStateVariable, r>>)
            ELSE Call("HeaderLoop", <<mut, isStateVariable, [r EXCEPT !.stateMutability = mut.val]>>)
       ELSE IF ~isStateVariable /\ token = "override"
       THEN IF ovr.thrown \/ ovr.fail # "" THEN ovr
            ELSE Call("HeaderLoop", <<ovr, isStateVariable, [r EXCEPT !.overrides = ovr.val]>>)
       ELSE IF ~isStateVariable /\ token = "virtual"
       THEN Call("HeaderLoop", <<virt, isStateVariable, [r EXCEPT !.isVirtual = TRUE]>>)
       ELSE Ret(p, r)

\* Parser::parseFunctionHeader
ParseFunctionHeader(p0, isStateVariable) ==
    LET p1 == Call("Enter", <<p0>>)
        options == [VarDeclParserOptions EXCEPT !.allowLocationSpecifier = TRUE]
        params == Call("ParseParameterList", <<p1, options, TRUE>>)
        loop == Call("HeaderLoop", <<params,  isStateVariable,
                    [parameters |-> params.val, returnParameters |-> Null,
                     visibility |-> "default", stateMutability |-> "nonpayable",
                     overrides |-> Null, isVirtual |-> FALSE, modifiers |-> <<>>]>>)
        rets == IF Cur(loop) = "returns" THEN Call("ParseParameterList", <<ScannerNext(loop), options, FALSE>>)
                ELSE CreateEmptyParameterList(loop)
    IN IF Bad(p1) THEN p1
       ELSE IF params.thrown \/ params.fail # "" THEN Leave(p0, params)
            ELSE IF loop.thrown \/ loop.fail # "" THEN Leave(p0, loop)
            ELSE IF rets.thrown \/ rets.fail # "" THEN Leave(p0, rets)
            ELSE Leave(p0, Ret(rets, [loop.val EXCEPT !.returnParameters = rets.val]))

\* ------------------------------------------------------------- statements

\* The catch blocks of the three recovery points.  A FatalError is absorbed,
\* setting m_inParserRecovery, if errors were reported, recovery is enabled
\* and the reporter has not seen too many errors; it is thrown again
\* otherwise.  recov records what each catch block saw (q) and the state it left (r).
RecoveryEvent(q, r, point) ==
    [point |-> point, recovery |-> q.recovery, hasErrors |-> HasErrors(q),
     excessive |-> HasExcessiveErrors(q), absorbed |-> ~r.thrown, flagBefore |-> q.inRec,
     flagAfter |-> r.inRec]

\* the catch block of parseStatement without the test of m_parserErrorRecovery
CatchInStatementAnyMode(q) ==
    IF ~q.thrown THEN q
    ELSE IF ~HasErrors(q) \/ HasExcessiveErrors(q)
    THEN [q EXCEPT !.recov = Append(@, RecoveryEvent(q, q, "Statement"))]
    ELSE LET r == [q EXCEPT !.thrown = FALSE, !.inRec = TRUE]
         IN [r EXCEPT !.recov = Append(@, RecoveryEvent(q, r, "Statement"))]

\* the catch block of parseStatement
CatchInStatement(q) ==
    IF ~q.thrown THEN q
    ELSE IF ~HasErrors(q) \/ ~q.recovery \/ HasExcessiveErrors(q)
    THEN [q EXCEPT !.recov = Append(@, RecoveryEvent(q, q, "Statement"))]
    ELSE LET r == [q EXCEPT !.thrown = FALSE, !.inRec = TRUE]
         IN [r EXCEPT !.recov = Append(@, RecoveryEvent(q, r, "Statement"))]

\* the catch block of parseBlock without the test of hasExcessiveErrors
CatchInBlockDespiteExcess(q) ==
    IF ~q.thrown THEN q
    ELSE IF ~HasErrors(q) \/ ~q.recovery
    THEN [q EXCEPT !.recov = Append(@, RecoveryEvent(q, q, "Block"))]
    ELSE LET r == [q EXCEPT !.thrown = FALSE, !.inRec = TRUE]
         IN [r EXCEPT !.recov = Append(@, RecoveryEvent(q, r, "Block"))]

\* the catch block of parseBlock
CatchInBlock(q) ==
    IF ~q.thrown THEN q
    ELSE IF ~HasErrors(q) \/ ~q.recovery \/ HasExcessiveErrors(q)
    THEN [q EXCEPT !.recov = Append(@, RecoveryEvent(q, q, "Block"))]
    ELSE LET r == [q EXCEPT !.thrown = FALSE, !.inRec = TRUE]
         IN [r EXCEPT !.recov = Append(@, RecoveryEvent(q, r, "Block"))]

\* the catch block of parseContractDefinition without the test of
\* m_parserErrorRecovery
CatchInContractDefinitionAnyMode(q) ==
    IF ~q.thrown THEN q
    ELSE IF ~HasErrors(q) \/ HasExcessiveErrors(q)
    THEN [q EXCEPT !.recov = Append(@, RecoveryEvent(q, q, "ContractDefinition"))]
    ELSE LET r == [q EXCEPT !.thrown = FALSE, !.inRec = TRUE]
         IN [r EXCEPT !.recov = Append(@, RecoveryEvent(q, r, "ContractDefinition"))]

\* the catch block of parseContractDefinition
CatchInContractDefinition(q) ==
    IF ~q.thrown THEN q
    ELSE IF ~HasErrors(q) \/ ~q.recovery \/ HasExcessiveErrors(q)
    THEN [q EXCEPT !.recov = Append(@, RecoveryEvent(q, q, "ContractDefinition"))]
    ELSE LET r == [q EXCEPT !.thrown = FALSE, !.inRec = TRUE]
         IN [r EXCEPT !.recov = Append(@, RecoveryEvent(q, r, "ContractDefinition"))]

\* IndexAccessedPath
EmptyPath == [path |-> <<>>, indices |-> <<>>]
IsEmptyPath(iap) == iap.path = <<>> /\ iap.indices = <<>>

\* Parser::peekStatementType
PeekStatementType(p) ==
    LET token == Cur(p)
        next == Peek(p)
        mightBeTypeName == token \in ElementaryTypeNames \/ token = "Identifier"
    IN IF token = "mapping" \/ token = "function" THEN "VariableDeclaration"
       ELSE IF mightBeTypeName /\ token \in ElementaryTypeNames
               /\ next \in StateMutabilitySpecifiers THEN "VariableDeclaration"
       ELSE IF mightBeTypeName /\ (next = "Identifier" \/ next \in LocationSpecifiers)
       THEN "VariableDeclaration"
       ELSE IF mightBeTypeName /\ (next = "[" \/ next = ".") THEN "IndexAccessStructure"
       ELSE "Expression"

\* the two loops of parseIndexAccessedPath
PathLoop(p, iap) ==
    IF Cur(p) # "." THEN Ret(p, iap)
    ELSE LET p1 == Call("ParseIdentifier", <<ScannerNext(p)>>)
         IN IF p1.thrown \/ p1.fail # "" THEN p1 ELSE Call("PathLoop", <<p1, [iap EXCEPT !.path = Append(@, p1.val)]>>)

IndexLoop(p, iap) ==
    IF Cur(p) # "[" THEN Ret(p, iap)
    ELSE LET p1 == Call("ExpectToken", <<p, "[", TRUE>>)
             p2 == IF Cur(p1) # "]" /\ Cur(p1) # ":" THEN Call("ParseExpression", <<p1, Null>>)
                   ELSE Ret(p1, Null)
             index == p2.val
             p3 == Call("ExpectToken", <<p2, ":", TRUE>>)
             p4 == IF Cur(p3) # "]" THEN Call("ParseExpression", <<p3, Null>>) ELSE Ret(p3, Null)
             slice == [start |-> index, hasEnd |-> TRUE, end |-> p4.val,
                       ls |-> iap.path[1].s, le |-> CurEnd(p4)]
             plain == [start |-> index, hasEnd |-> FALSE, end |-> Null,
                       ls |-> iap.path[1].s, le |-> CurEnd(p2)]
         IN IF p2.thrown \/ p2.fail # "" THEN p2
            ELSE IF Cur(p2) = ":"
            THEN IF p4.thrown \/ p4.fail # "" THEN p4
                 ELSE Call("IndexLoop", <<Call("ExpectToken", <<p4, "]", TRUE>>),
                                [iap EXCEPT !.indices = Append(@, slice)]>>)
            ELSE Call("IndexLoop", <<Call("ExpectToken", <<p2, "]", TRUE>>),
                           [iap EXCEPT !.indices = Append(@, plain)]>>)

\* Parser::parseIndexAccessedPath (takes no recursion guard)
ParseIndexAccessedPath(p0) ==
    LET p1 == EnterU(p0)
        first == Call("ParseIdentifier", <<p1>>)
        path == IF first.thrown \/ first.fail # "" THEN first
                ELSE Call("PathLoop", <<first, [path |-> <<first.val>>, indices |-> <<>>]>>)
        elemType == CreateNode(p1, Factory(p1), "ElementaryTypeName", Cur(p1), <<>>)
        elemExpr == CreateNode(elemType, Factory(p1), "ElementaryTypeNameExpression", "",
                               <<elemType.val>>)
        start == IF Cur(p1) = "Identifier" THEN path
                 ELSE Ret(ScannerNext(elemExpr), [path |-> <<elemExpr.val>>, indices |-> <<>>])
    IN IF start.thrown \/ start.fail # "" THEN LeaveU(p0, start) ELSE LeaveU(p0, Call("IndexLoop", <<start, start.val>>))

\* The pair tryParseIndexAccessedPath returns.  looks records, for each
\* return, the two tokens peekStatementType saw at p1, the scanner position
\* before and after, and the token the scanner is left at.
LookAheadInfo(p1, q, statementType, iap) ==
    Ret([q EXCEPT !.looks = Append(@, [first |-> Cur(p1), next |-> Peek(p1),
                                       from |-> p1.pos, to |-> q.pos,
                                       following |-> Cur(q), type |-> statementType])],
        [type |-> statementType, iap |-> iap])

\* tryParseIndexAccessedPath taking an identifier only, and no location
\* specifier, as the start of a declaration
TryParseIndexAccessedPathIdentifierOnly(p0) ==
    LET p1 == EnterU(p0)
        statementType == PeekStatementType(p1)
        q == Call("ParseIndexAccessedPath", <<p1>>)
    IN IF statementType \in {"VariableDeclaration", "Expression"}
         THEN LeaveU(p0, LookAheadInfo(p1, p1, statementType, EmptyPath))
         ELSE IF q.thrown \/ q.fail # "" THEN LeaveU(p0, q)
         ELSE IF Cur(q) = "Identifier"
         THEN LeaveU(p0, LookAheadInfo(p1, q, "VariableDeclaration", q.val))
         ELSE LeaveU(p0, LookAheadInfo(p1, q, "Expression", q.val))

\* Parser::tryParseIndexAccessedPath (takes no recursion guard)
TryParseIndexAccessedPath(p0) ==
    LET p1 == EnterU(p0)
        statementType == PeekStatementType(p1)
        q == Call("ParseIndexAccessedPath", <<p1>>)
    IN IF statementType \in {"VariableDeclaration", "Expression"}
         THEN LeaveU(p0, LookAheadInfo(p1, p1, statementType, EmptyPath))
         ELSE IF q.thrown \/ q.fail # "" THEN LeaveU(p0, q)
         ELSE IF Cur(q) = "Identifier" \/ Cur(q) \in LocationSpecifiers
         THEN LeaveU(p0, LookAheadInfo(p1, q, "VariableDeclaration", q.val))
         ELSE LeaveU(p0, LookAheadInfo(p1, q, "Expression", q.val))

\* the loop of typeNameFromIndexAccessStructure taking the segments from the
\* last to the first
ArrayTypeLoopLastFirst(p, indices, i, type) ==
    IF i > Len(indices) THEN Ret(p, type)
    ELSE LET lengthExpression == indices[Len(indices) + 1 - i]
             p1 == IF lengthExpression.hasEnd
                   THEN Call("ParserErrorAt", <<p, 5464, lengthExpression.ls>>) ELSE p
             made == CreateNode(p1, SetLocation(Factory(p1), lengthExpression.ls,
                                                lengthExpression.le),
                                "ArrayTypeName", "", <<type, lengthExpression.start>>)
         IN Call("ArrayTypeLoop", <<made, indices, i + 1, made.val>>)

\* Parser::typeNameFromIndexAccessStructure
ArrayTypeLoop(p, indices, i, type) ==
    IF i > Len(indices) THEN Ret(p, type)
    ELSE LET lengthExpression == indices[i]
             p1 == IF lengthExpression.hasEnd
                   THEN Call("ParserErrorAt", <<p, 5464, lengthExpression.ls>>) ELSE p
             made == CreateNode(p1, SetLocation(Factory(p1), lengthExpression.ls,
                                                lengthExpression.le),
                                "ArrayTypeName", "", <<type, lengthExpression.start>>)
         IN Call("ArrayTypeLoop", <<made, indices, i + 1, made.val>>)

\* typed records each path typeNameFromIndexAccessStructure turned into a
\* type, with the type it returned.
TypeNameMade(q, iap) ==
    IF q.thrown \/ q.fail # "" THEN q
    ELSE [q EXCEPT !.typed = Append(@, [iap |-> iap, type |-> q.val])]

TypeNameFromIndexAccessStructure(p0, iap) ==
    LET p1 == Call("Enter", <<p0>>)
        front == iap.path[1]
        back == iap.path[Len(iap.path)]
        nf == SetLocation(Factory(p1), front.s, back.e)
        base == IF front.kind = "ElementaryTypeNameExpression"
                THEN IF Len(iap.path) = 1
                     THEN CreateNode(p1, nf, "ElementaryTypeName", front.kids[1].name, <<>>)
                     ELSE AssertionFailure(p1)
                ELSE CreateNodeA(p1, nf, "UserDefinedTypeName", "",
                                 [i \in 1..Len(iap.path) |-> iap.path[i].name], <<>>)
    IN IF IsEmptyPath(iap) THEN Ret(p0, Null)
       ELSE IF Bad(p1) THEN p1
       ELSE IF base.thrown \/ base.fail # "" THEN Leave(p0, base)
                      ELSE Leave(p0, TypeNameMade(Call("ArrayTypeLoop", <<base, iap.indices, 1, base.val>>), iap))

\* Parser::expressionFromIndexAccessStructure
MemberLoop(p, path, i, expression) ==
    IF i > Len(path) THEN Ret(p, expression)
    ELSE LET made == CreateNode(p, SetLocation(Factory(p), path[1].s, path[i].e),
                                "MemberAccess", path[i].name, <<expression>>)
         IN Call("MemberLoop", <<made, path, i + 1, made.val>>)

AccessLoop(p, indices, i, expression) ==
    IF i > Len(indices) THEN Ret(p, expression)
    ELSE LET index == indices[i]
             nf == SetLocation(Factory(p), index.ls, index.le)
             made == IF index.hasEnd
                     THEN CreateNode(p, nf, "IndexRangeAccess", "",
                                     <<expression, index.start, index.end>>)
                     ELSE CreateNode(p, nf, "IndexAccess", "", <<expression, index.start>>)
         IN Call("AccessLoop", <<made, indices, i + 1, made.val>>)

ExpressionFromIndexAccessStructure(p0, iap) ==
    LET p1 == Call("Enter", <<p0>>)
        members == Call("MemberLoop", <<p1, iap.path, 2, iap.path[1]>>)
    IN IF IsEmptyPath(iap) THEN Ret(p0, Null)
       ELSE IF Bad(p1) THEN p1
       ELSE Leave(p0, Call("AccessLoop", <<members, iap.indices, 1, members.val>>))

\* Parser::parseExpressionStatement
ParseExpressionStatement(p0, partial) ==
    LET p1 == Call("Enter", <<p0>>)
        p2 == Call("ParseExpression", <<p1, partial>>)
    IN IF Bad(p1) THEN p1
       ELSE IF p2.thrown \/ p2.fail # "" THEN Leave(p0, p2)
            ELSE Leave(p0, CreateNode(p2, FactoryFrom(p2.val), "ExpressionStatement", "", <<p2.val>>))

\* Parser::parseVariableDeclarationStatement
ParseVariableDeclarationStatement(p0, lookAheadArrayType) ==
    LET p1 == Call("Enter", <<p0>>)
        nf0 == IF IsNull(lookAheadArrayType) THEN Factory(p1)
               ELSE FactoryFrom(lookAheadArrayType)
        options == [VarDeclParserOptions EXCEPT !.allowLocationSpecifier = TRUE]
        var == Call("ParseVariableDeclaration", <<p1, options, lookAheadArrayType>>)
        nf1 == SetEndFromNode(nf0, var.val)
        hasValue == Cur(var) = "="
        pv == IF hasValue THEN Call("ParseExpression", <<ScannerNext(var), Null>>) ELSE Ret(var, Null)
        nf2 == IF hasValue THEN SetEndFromNode(nf1, pv.val) ELSE nf1
    IN IF Bad(p1) THEN p1
       ELSE IF var.thrown \/ var.fail # "" THEN Leave(p0, var)
            ELSE IF pv.thrown \/ pv.fail # "" THEN Leave(p0, pv)
            ELSE Leave(p0, CreateNode(pv, nf2, "VariableDeclarationStatement", "",
                                      <<pv.val, var.val>>))

\* the loops of parseSimpleStatement for a statement starting with "("
EmptyComponentLoop(p, emptyComponents) ==
    IF Cur(p) = "," THEN Call("EmptyComponentLoop", <<ScannerNext(p), emptyComponents + 1>>)
    ELSE Ret(p, emptyComponents)

\* the declaration loop of parseSimpleStatement making no entry for an
\* omitted component
TupleDeclarationLoopSkippingOmitted(p, options, variables) ==
    IF Cur(p) = ")" THEN Ret(p, variables)
    ELSE LET p1 == Call("ExpectToken", <<p, ",", TRUE>>)
             p2 == Call("ParseVariableDeclaration", <<p1, options, Null>>)
         IN IF Cur(p1) = "," \/ Cur(p1) = ")"
            THEN Call("TupleDeclarationLoop", <<p1, options, variables>>)
            ELSE IF p2.thrown \/ p2.fail # "" THEN p2
            ELSE Call("TupleDeclarationLoop", <<p2, options, Append(variables, p2.val)>>)

TupleDeclarationLoop(p, options, variables) ==
    IF Cur(p) = ")" THEN Ret(p, variables)
    ELSE LET p1 == Call("ExpectToken", <<p, ",", TRUE>>)
             p2 == Call("ParseVariableDeclaration", <<p1, options, Null>>)
         IN IF Cur(p1) = "," \/ Cur(p1) = ")"
            THEN Call("TupleDeclarationLoop", <<p1, options, Append(variables, Null)>>)
            ELSE IF p2.thrown \/ p2.fail # "" THEN p2
            ELSE Call("TupleDeclarationLoop", <<p2, options, Append(variables, p2.val)>>)

TupleComponentLoop(p, components) ==
    IF Cur(p) = ")" THEN Ret(p, components)
    ELSE LET p1 == Call("ExpectToken", <<p, ",", TRUE>>)
             p2 == Call("ParseExpression", <<p1, Null>>)
         IN IF Cur(p1) = "," \/ Cur(p1) = ")"
            THEN Call("TupleComponentLoop", <<p1, Append(components, Null)>>)
            ELSE IF p2.thrown \/ p2.fail # "" THEN p2
            ELSE Call("TupleComponentLoop", <<p2, Append(components, p2.val)>>)

\* Parser::parseSimpleStatement
ParseSimpleStatement(p0) ==
    LET p1 == Call("Enter", <<p0>>)
        \* a statement starting with "("
        nf == Factory(p1)
        empties == Call("EmptyComponentLoop", <<Call("ExpectToken", <<p1, "(", TRUE>>), 0>>)
        nulls == [i \in 1..empties.val |-> Null]
        look == Call("TryParseIndexAccessedPath", <<empties>>)
        options == [VarDeclParserOptions EXCEPT !.allowLocationSpecifier = TRUE]
        \* (,, a.b.c[2][3] x, ...) = value
        type == Call("TypeNameFromIndexAccessStructure", <<look, look.val.iap>>)
        var == Call("ParseVariableDeclaration", <<type, options, type.val>>)
        vars == Call("TupleDeclarationLoop", <<var, options, Append(nulls, var.val)>>)
        value == Call("ParseExpression", <<Call("ExpectToken", <<Call("ExpectToken", <<vars, ")", TRUE>>), "=", TRUE>>), Null>>)
        \* (,, a.b.c[2][3] + 1, ...)
        partial == Call("ExpressionFromIndexAccessStructure", <<look, look.val.iap>>)
        expr == Call("ParseExpression", <<partial, partial.val>>)
        comps == Call("TupleComponentLoop", <<expr, Append(nulls, expr.val)>>)
        tuple == TupleMade(CreateNode(Call("ExpectToken", <<comps, ")", TRUE>>), MarkEnd(nf, comps),
                                      "TupleExpression", "", comps.val))
        \* any other statement
        plain == Call("TryParseIndexAccessedPath", <<p1>>)
        ptype == Call("TypeNameFromIndexAccessStructure", <<plain, plain.val.iap>>)
        pexpr == Call("ExpressionFromIndexAccessStructure", <<plain, plain.val.iap>>)
    IN IF Bad(p1) THEN p1
       ELSE IF Cur(p1) = "("
            THEN IF look.thrown \/ look.fail # "" THEN Leave(p0, look)
                 ELSE IF look.val.type = "VariableDeclaration"
                 THEN IF type.thrown \/ type.fail # "" THEN Leave(p0, type)
                      ELSE IF var.thrown \/ var.fail # "" THEN Leave(p0, var)
                      ELSE IF vars.thrown \/ vars.fail # "" THEN Leave(p0, vars)
                      ELSE IF value.thrown \/ value.fail # "" THEN Leave(p0, value)
                      ELSE Leave(p0, CreateNode(value, SetEndFromNode(nf, value.val),
                                                "VariableDeclarationStatement", "",
                                                <<value.val>> \o vars.val))
                 ELSE IF partial.thrown \/ partial.fail # "" THEN Leave(p0, partial)
                 ELSE IF expr.thrown \/ expr.fail # "" THEN Leave(p0, expr)
                 ELSE IF comps.thrown \/ comps.fail # "" THEN Leave(p0, comps)
                 ELSE Leave(p0, Call("ParseExpressionStatement", <<tuple, tuple.val>>))
            ELSE IF plain.thrown \/ plain.fail # "" THEN Leave(p0, plain)
            ELSE IF plain.val.type = "VariableDeclaration"
            THEN IF ptype.thrown \/ ptype.fail # "" THEN Leave(p0, ptype)
                 ELSE Leave(p0, Call("ParseVariableDeclarationStatement", <<ptype, ptype.val>>))
            ELSE IF pexpr.thrown \/ pexpr.fail # "" THEN Leave(p0, pexpr)
            ELSE Leave(p0, Call("ParseExpressionStatement", <<pexpr, pexpr.val>>))

\* yul::Parser::parse(m_scanner, true): the assembly block is a balanced run
\* of braces.  A block that cannot be parsed is reported and null is returned;
\* the scanner is shared, so the tokens consumed stay consumed.
RECURSIVE YulBlock(_, _)
YulBlock(p, open) ==
    IF AtEOS(p) THEN Ret([p EXCEPT !.errs = Append(@, Diagnostic(2314, "error", CurStart(p), TRUE))], Null)
    ELSE IF Cur(p) = "{" THEN YulBlock(ScannerNext(p), open + 1)
    ELSE IF Cur(p) = "}"
    THEN IF open = 1 THEN Ret(ScannerNext(p), [e |-> CurEnd(p)]) ELSE YulBlock(ScannerNext(p), open - 1)
    ELSE YulBlock(ScannerNext(p), open)

YulParse(p) ==
    IF Cur(p) # "{"
    THEN Ret([p EXCEPT !.errs = Append(@, Diagnostic(2314, "error", CurStart(p), TRUE))], Null)
    ELSE YulBlock(ScannerNext(p), 1)

\* parseInlineAssembly creating its node without taking an id from nextID()
ParseInlineAssemblyStaleId(p0) ==
    LET p1 == Call("Enter", <<p0>>)
        locationStart == CurStart(p1)
        p2 == Call("ExpectToken", <<p1, "assembly", TRUE>>)
        p3 == IF Cur(p2) = "StringLiteral"
              THEN IF Lit(p2) # "\"evmasm\"" THEN Call("FatalParserError", <<p2, 4531>>) ELSE ScannerNext(p2)
              ELSE p2
        block == YulParse(p3)
    IN IF Bad(p1) THEN p1
       ELSE IF p3.thrown \/ p3.fail # "" THEN Leave(p0, p3)
            ELSE IF block.val = Null THEN Leave(p0, Throw(block))
            ELSE Leave(p0, MakeNode(block, block.nid, locationStart, block.val.e,
                                    "InlineAssembly", "", <<>>, <<>>))

\* Parser::parseInlineAssembly
ParseInlineAssembly(p0) ==
    LET p1 == Call("Enter", <<p0>>)
        locationStart == CurStart(p1)
        p2 == Call("ExpectToken", <<p1, "assembly", TRUE>>)
        p3 == IF Cur(p2) = "StringLiteral"
              THEN IF Lit(p2) # "\"evmasm\"" THEN Call("FatalParserError", <<p2, 4531>>) ELSE ScannerNext(p2)
              ELSE p2
        block == YulParse(p3)
    IN IF Bad(p1) THEN p1
       ELSE IF p3.thrown \/ p3.fail # "" THEN Leave(p0, p3)
            ELSE IF block.val = Null THEN Leave(p0, Throw(block))
            ELSE Leave(p0, MakeNode(block, NextID(block), locationStart, block.val.e,
                                    "InlineAssembly", "", <<>>, <<>>))

\* Parser::parseEmitStatement (takes no recursion guard)
EmitPathLoop(p, path) ==
    LET p1 == Call("ParseIdentifier", <<p>>)
    IN IF p1.thrown \/ p1.fail # "" THEN p1
       ELSE IF Cur(p1) # "." THEN Ret(p1, Append(path, p1.val))
       ELSE Call("EmitPathLoop", <<ScannerNext(p1), Append(path, p1.val)>>)

ParseEmitStatement(p0) ==
    LET p1 == EnterU(p0)
        p2 == Call("ExpectToken", <<p1, "emit", FALSE>>)
        nf == Factory(p2)
        p3 == ScannerNext(p2)
        eventCallNodeFactory == Factory(p3)
        path == Call("EmitPathLoop", <<p3, <<>>>>)
        eventName == Call("ExpressionFromIndexAccessStructure", <<path, [path |-> path.val, indices |-> <<>>]>>)
        args == Call("ParseFunctionCallArguments", <<Call("ExpectToken", <<eventName, "(", TRUE>>)>>)
        p4 == Call("ExpectToken", <<args, ")", TRUE>>)
        eventCall == CreateNodeA(p4, MarkEnd(eventCallNodeFactory, args), "FunctionCall", "",
                                 args.val.names, <<eventName.val>> \o args.val.exprs)
    IN IF Cur(p3) # "Identifier" THEN LeaveU(p0, Call("FatalParserError", <<p3, 5620>>))
         ELSE IF path.thrown \/ path.fail # "" THEN LeaveU(p0, path)
         ELSE IF eventName.thrown \/ eventName.fail # "" THEN LeaveU(p0, eventName)
         ELSE IF args.thrown \/ args.fail # "" THEN LeaveU(p0, args)
         ELSE LeaveU(p0, CreateNode(eventCall, MarkEnd(nf, args), "EmitStatement", "", <<eventCall.val>>))

\* Parser::parseIfStatement
ParseIfStatement(p0) ==
    LET p1 == Call("Enter", <<p0>>)
        nf == Factory(p1)
        condition == Call("ParseExpression", <<Call("ExpectToken", <<Call("ExpectToken", <<p1, "if", TRUE>>), "(", TRUE>>), Null>>)
        trueBody == Call("ParseStatement", <<Call("ExpectToken", <<condition, ")", TRUE>>)>>)
        falseBody == Call("ParseStatement", <<ScannerNext(trueBody)>>)
    IN IF Bad(p1) THEN p1
       ELSE IF condition.thrown \/ condition.fail # "" THEN Leave(p0, condition)
            ELSE IF trueBody.thrown \/ trueBody.fail # "" THEN Leave(p0, trueBody)
            ELSE IF Cur(trueBody) = "else"
            THEN IF falseBody.thrown \/ falseBody.fail # "" THEN Leave(p0, falseBody)
                 ELSE IF IsNull(falseBody.val) THEN Leave(p0, NullDereference(falseBody))
                 ELSE Leave(p0, CreateNode(falseBody, SetEndFromNode(nf, falseBody.val), "IfStatement", "",
                                           <<condition.val, trueBody.val, falseBody.val>>))
            ELSE IF IsNull(trueBody.val) THEN Leave(p0, NullDereference(trueBody))
            ELSE Leave(p0, CreateNode(trueBody, SetEndFromNode(nf, trueBody.val), "IfStatement", "",
                                      <<condition.val, trueBody.val, Null>>))

\* Parser::parseWhileStatement
ParseWhileStatement(p0) ==
    LET p1 == Call("Enter", <<p0>>)
        nf == Factory(p1)
        condition == Call("ParseExpression", <<Call("ExpectToken", <<Call("ExpectToken", <<p1, "while", TRUE>>), "(", TRUE>>), Null>>)
        body == Call("ParseStatement", <<Call("ExpectToken", <<condition, ")", TRUE>>)>>)
    IN IF Bad(p1) THEN p1
       ELSE IF condition.thrown \/ condition.fail # "" THEN Leave(p0, condition)
            ELSE IF body.thrown \/ body.fail # "" THEN Leave(p0, body)
            ELSE IF IsNull(body.val) THEN Leave(p0, NullDereference(body))
            ELSE Leave(p0, CreateNode(body, SetEndFromNode(nf, body.val), "WhileStatement", "while",
                                      <<condition.val, body.val>>))

\* Parser::parseDoWhileStatement
ParseDoWhileStatement(p0) ==
    LET p1 == Call("Enter", <<p0>>)
        nf == Factory(p1)
        body == Call("ParseStatement", <<Call("ExpectToken", <<p1, "do", TRUE>>)>>)
        condition == Call("ParseExpression", <<Call("ExpectToken", <<Call("ExpectToken", <<body, "while", TRUE>>), "(", TRUE>>), Null>>)
        p2 == Call("ExpectToken", <<condition, ")", TRUE>>)
    IN IF Bad(p1) THEN p1
       ELSE IF body.thrown \/ body.fail # "" THEN Leave(p0, body)
            ELSE IF condition.thrown \/ condition.fail # "" THEN Leave(p0, condition)
            ELSE Leave(p0, CreateNode(Call("ExpectToken", <<p2, ";", TRUE>>), MarkEnd(nf, p2), "WhileStatement", "do",
                                      <<condition.val, body.val>>))

\* Parser::parseForStatement
ParseForStatement(p0) ==
    LET p1 == Call("Enter", <<p0>>)
        nf == Factory(p1)
        p2 == Call("ExpectToken", <<Call("ExpectToken", <<p1, "for", TRUE>>), "(", TRUE>>)
        init == IF Cur(p2) # ";" THEN Call("ParseSimpleStatement", <<p2>>) ELSE Ret(p2, Null)
        p3 == Call("ExpectToken", <<init, ";", TRUE>>)
        cond == IF Cur(p3) # ";" THEN Call("ParseExpression", <<p3, Null>>) ELSE Ret(p3, Null)
        p4 == Call("ExpectToken", <<cond, ";", TRUE>>)
        loop == IF Cur(p4) # ")" THEN Call("ParseExpressionStatement", <<p4, Null>>) ELSE Ret(p4, Null)
        body == Call("ParseStatement", <<Call("ExpectToken", <<loop, ")", TRUE>>)>>)
    IN IF Bad(p1) THEN p1
       ELSE IF init.thrown \/ init.fail # "" THEN Leave(p0, init)
            ELSE IF cond.thrown \/ cond.fail # "" THEN Leave(p0, cond)
            ELSE IF loop.thrown \/ loop.fail # "" THEN Leave(p0, loop)
            ELSE IF body.thrown \/ body.fail # "" THEN Leave(p0, body)
            ELSE IF IsNull(body.val) THEN Leave(p0, NullDereference(body))
            ELSE Leave(p0, CreateNode(body, SetEndFromNode(nf, body.val), "ForStatement", "",
                                      <<init.val, cond.val, loop.val, body.val>>))

\* Parser::parseCatchClause
ParseCatchClause(p0) ==
    LET p1 == Call("Enter", <<p0>>)
        nf == Factory(p1)
        p2 == Call("ExpectToken", <<p1, "catch", TRUE>>)
        named == IF Cur(p2) = "Identifier" THEN ExpectIdentifierToken(p2) ELSE Ret(p2, "")
        errorName == named.val
        options == [VarDeclParserOptions EXCEPT !.allowEmptyName = TRUE,
                                                !.allowLocationSpecifier = TRUE]
        params == IF Cur(p2) # "{" THEN Call("ParseParameterList", <<named, options, errorName # "">>)
                  ELSE Ret(p2, Null)
        block == Call("ParseBlock", <<params>>)
    IN IF Bad(p1) THEN p1
       ELSE IF params.thrown \/ params.fail # "" THEN Leave(p0, params)
            ELSE IF block.thrown \/ block.fail # "" THEN Leave(p0, block)
            ELSE Leave(p0, CreateNode(block, SetEndFromNode(nf, block.val), "TryCatchClause", errorName,
                                      <<params.val, block.val>>))

\* Parser::parseTryStatement
CatchLoop(p, clauses) ==
    LET p1 == Call("ParseCatchClause", <<p>>)
    IN IF p1.thrown \/ p1.fail # "" THEN p1
       ELSE IF Cur(p1) = "catch"
       THEN IF p1.pos = p.pos THEN Diverge(p1) ELSE Call("CatchLoop", <<p1, Append(clauses, p1.val)>>)
       ELSE Ret(p1, Append(clauses, p1.val))

ParseTryStatement(p0) ==
    LET p1 == Call("Enter", <<p0>>)
        nf == Factory(p1)
        externalCall == Call("ParseExpression", <<Call("ExpectToken", <<p1, "try", TRUE>>), Null>>)
        successClauseFactory == Factory(externalCall)
        options == [VarDeclParserOptions EXCEPT !.allowEmptyName = TRUE,
                                                !.allowLocationSpecifier = TRUE]
        returns == IF Cur(externalCall) = "returns"
                   THEN Call("ParseParameterList", <<ScannerNext(externalCall), options, FALSE>>)
                   ELSE Ret(externalCall, Null)
        successBlock == Call("ParseBlock", <<returns>>)
        success == CreateNode(successBlock, SetEndFromNode(successClauseFactory, successBlock.val),
                              "TryCatchClause", "", <<returns.val, successBlock.val>>)
        clauses == Call("CatchLoop", <<success, <<success.val>>>>)
    IN IF Bad(p1) THEN p1
       ELSE IF externalCall.thrown \/ externalCall.fail # "" THEN Leave(p0, externalCall)
            ELSE IF returns.thrown \/ returns.fail # "" THEN Leave(p0, returns)
            ELSE IF successBlock.thrown \/ successBlock.fail # "" THEN Leave(p0, successBlock)
            ELSE IF clauses.thrown \/ clauses.fail # "" THEN Leave(p0, clauses)
            ELSE Leave(p0, CreateNode(clauses,
                                      SetEndFromNode(nf, clauses.val[Len(clauses.val)]), "TryStatement", "",
                                      <<externalCall.val>> \o clauses.val))

\* Parser::parseStatement
ParseStatement(p0) ==
    LET p1 == Call("Enter", <<p0>>)
        token == Cur(p1)
        returns == token \in {"if", "while", "do", "for", "{", "try", "assembly"}
        expression == Call("ParseExpression", <<ScannerNext(p1), Null>>)
        body ==
            CASE token = "if" -> Call("ParseIfStatement", <<p1>>)
              [] token = "while" -> Call("ParseWhileStatement", <<p1>>)
              [] token = "do" -> Call("ParseDoWhileStatement", <<p1>>)
              [] token = "for" -> Call("ParseForStatement", <<p1>>)
              [] token = "{" -> Call("ParseBlock", <<p1>>)
              [] token = "continue" -> ScannerNext(CreateNode(p1, Factory(p1), "Continue", "", <<>>))
              [] token = "break" -> ScannerNext(CreateNode(p1, Factory(p1), "Break", "", <<>>))
              [] token = "return" ->
                    IF Peek(p1) # ";"
                    THEN IF expression.thrown \/ expression.fail # "" THEN expression
                         ELSE CreateNode(expression, SetEndFromNode(Factory(p1), expression.val),
                                         "Return", "", <<expression.val>>)
                    ELSE CreateNode(ScannerNext(p1), Factory(p1), "Return", "", <<Null>>)
              [] token = "throw" -> ScannerNext(CreateNode(p1, Factory(p1), "Throw", "", <<>>))
              [] token = "try" -> Call("ParseTryStatement", <<p1>>)
              [] token = "assembly" -> Call("ParseInlineAssembly", <<p1>>)
              [] token = "emit" -> Call("ParseEmitStatement", <<p1>>)
              [] token = "Identifier" /\ p1.insideModifier /\ Lit(p1) = "_" ->
                    ScannerNext(CreateNode(p1, Factory(p1), "PlaceholderStatement", "", <<>>))
              [] OTHER -> Call("ParseSimpleStatement", <<p1>>)
        statement == IF body.thrown THEN Null ELSE body.val
        caught == CatchInStatement(body)
    IN IF Bad(p1) THEN p1
       ELSE IF body.fail # "" THEN Leave(p0, body)
            ELSE IF ~body.thrown /\ returns THEN Leave(p0, body)
            ELSE IF caught.thrown THEN Leave(p0, caught)
            ELSE IF caught.inRec THEN Leave(p0, Ret(ExpectTokenOrConsumeUntil(caught, ";"), statement))
            ELSE Leave(p0, Ret(Call("ExpectToken", <<caught, ";", TRUE>>), statement))

\* Parser::parseBlock
BlockLoop(p, statements) ==
    IF Cur(p) = "}" THEN Ret(p, statements)
    ELSE LET p1 == Call("ParseStatement", <<p>>)
         IN IF p1.thrown \/ p1.fail # "" THEN Ret(p1, statements)
            ELSE IF p1.pos = p.pos THEN Diverge(Ret(p1, statements))
            ELSE Call("BlockLoop", <<p1, Append(statements, p1.val)>>)

ParseBlock(p0) ==
    LET p1 == Call("Enter", <<p0>>)
        nf == Factory(p1)
        loop == Call("BlockLoop", <<Call("ExpectToken", <<p1, "{", TRUE>>), <<>>>>)
        statements == loop.val
        nf1 == IF loop.thrown THEN nf ELSE MarkEnd(nf, loop)
        caught == CatchInBlock(loop)
        close == IF caught.inRec THEN ExpectTokenOrConsumeUntil(caught, "}")
                 ELSE Call("ExpectToken", <<caught, "}", TRUE>>)
    IN IF Bad(p1) THEN p1
       ELSE IF loop.fail # "" THEN Leave(p0, loop)
            ELSE IF caught.thrown THEN Leave(p0, caught)
            ELSE IF close.thrown THEN Leave(p0, close)
            ELSE Leave(p0, CreateNode(close, nf1, "Block", "", statements))

\* ------------------------------------------------------------ definitions
\* The literal the pragma parser records for the current token: the scanner's
\* literal, or the spelling of a keyword or punctuation token.
PragmaLiteral(p) ==
    IF Lit(p) # "" THEN Lit(p)
    ELSE IF Cur(p) \in {"Identifier", "StringLiteral", "Number"} THEN "" ELSE Cur(p)

\* SemVerMatchExpression::matches(currentVersion): the compiler's version
\* satisfies the version literal "0" and no other literal.
SemVerMatches(literals) ==
    literals # <<>> /\ \A i \in 1..Len(literals) : literals[i] = "0"

\* parsePragmaVersion raising the error with recovery enabled too
ParsePragmaVersionAnyMode(p, locationStart, literals) ==
    IF ~SemVerMatches(literals)
    THEN Call("FatalParserErrorAt", <<p, 5333, locationStart>>)
    ELSE p

\* Parser::parsePragmaVersion
ParsePragmaVersion(p, locationStart, literals) ==
    IF ~SemVerMatches(literals) /\ ~p.recovery
    THEN Call("FatalParserErrorAt", <<p, 5333, locationStart>>)
    ELSE p

\* the do-while loop of parsePragmaDirective
PragmaLoop(p, literals) ==
    LET p1 == IF Cur(p) = "ILLEGAL" THEN Call("ParserError", <<p, 6281>>) ELSE p
        literals1 == IF Cur(p) = "ILLEGAL" THEN literals ELSE Append(literals, PragmaLiteral(p))
        p2 == ScannerNext(p1)
    IN IF Cur(p2) # ";" /\ Cur(p2) # "EOS" THEN Call("PragmaLoop", <<p2, literals1>>)
       ELSE Ret(p2, literals1)

\* Parser::parsePragmaDirective
ParsePragmaDirective(p0) ==
    LET p1 == Call("Enter", <<p0>>)
        nf == Factory(p1)
        loop == Call("PragmaLoop", <<Call("ExpectToken", <<p1, "pragma", TRUE>>), <<>>>>)
        literals == loop.val
        nf1 == MarkEnd(nf, loop)
        p2 == Call("ExpectToken", <<loop, ";", TRUE>>)
        p3 == IF Len(literals) >= 2 /\ literals[1] = "solidity"
              THEN Call("ParsePragmaVersion", <<p2, nf1.s, Tail(literals)>>)
              ELSE p2
    IN IF Bad(p1) THEN p1
       ELSE IF p3.thrown \/ p3.fail # "" THEN Leave(p0, p3)
            ELSE Leave(p0, CreateNodeA(p3, nf1, "PragmaDirective", "", literals, <<>>))

\* Parser::parseImportDirective
AliasLoop(p, symbolAliases) ==
    LET id == Call("ParseIdentifier", <<p>>)
        alias == IF Cur(id) = "as" THEN ExpectIdentifierToken(Call("ExpectToken", <<id, "as", TRUE>>))
                 ELSE id
        aliases == Append(symbolAliases, id.val)
    IN IF id.thrown \/ id.fail # "" THEN id
       ELSE IF Cur(alias) # "," THEN Ret(alias, aliases)
       ELSE Call("AliasLoop", <<ScannerNext(alias), aliases>>)

ParseImportDirective(p0) ==
    LET p1 == Call("Enter", <<p0>>)
        nf == Factory(p1)
        p2 == Call("ExpectToken", <<p1, "import", TRUE>>)
        \* import "abc" [as x];
        direct == GetLiteralAndAdvance(p2)
        unit == IF Cur(direct) = "as" THEN ExpectIdentifierToken(ScannerNext(direct)) ELSE direct
        \* import {a as b, c} from "abc";    import * as x from "abc";
        list == Call("AliasLoop", <<ScannerNext(p2), <<>>>>)
        symbols == IF Cur(p2) = "{"
                   THEN IF list.thrown \/ list.fail # "" THEN list ELSE Ret(Call("ExpectToken", <<list, "}", TRUE>>), list.val)
                   ELSE IF Cur(p2) = "*"
                   THEN Ret(ExpectIdentifierToken(Call("ExpectToken", <<ScannerNext(p2), "as", TRUE>>)), <<>>)
                   ELSE Call("FatalParserError", <<p2, 9478>>)
        from == IF symbols.thrown \/ symbols.fail # "" THEN symbols
                ELSE IF Cur(symbols) # "Identifier" \/ Lit(symbols) # "from"
                THEN Call("FatalParserError", <<symbols, 8208>>)
                ELSE IF Cur(ScannerNext(symbols)) # "StringLiteral"
                THEN Call("FatalParserError", <<ScannerNext(symbols), 6845>>)
                ELSE Ret(ScannerNext(ScannerNext(symbols)), [path |-> Lit(ScannerNext(symbols)), aliases |-> symbols.val])
        end == IF Cur(p2) = "StringLiteral"
               THEN Ret(unit, [path |-> direct.val, aliases |-> <<>>])
               ELSE from
    IN IF Bad(p1) THEN p1
       ELSE IF end.thrown \/ end.fail # "" THEN Leave(p0, end)
            ELSE IF end.val.path = "" THEN Leave(p0, Call("FatalParserError", <<end, 6326>>))
            ELSE Leave(p0, CreateNode(Call("ExpectToken", <<end, ";", TRUE>>), MarkEnd(nf, end), "ImportDirective",
                                      end.val.path, end.val.aliases))

\* Parser::parseContractKind
ParseContractKind(p) ==
    LET abstract == Cur(p) = "abstract"
        p1 == IF abstract THEN ScannerNext(p) ELSE p
    IN IF Cur(p1) \in {"interface", "contract", "library"}
       THEN Ret(ScannerNext(p1), <<Cur(p1), BoolStr(abstract)>>)
       ELSE Ret(Call("ParserError", <<p1, 3515>>), <<"contract", BoolStr(abstract)>>)

\* Parser::parseInheritanceSpecifier
ParseInheritanceSpecifier(p0) ==
    LET p1 == Call("Enter", <<p0>>)
        nf == Factory(p1)
        name == Call("ParseUserDefinedTypeName", <<p1>>)
        arguments == Call("ParseFunctionCallListArguments", <<ScannerNext(name)>>)
    IN IF Bad(p1) THEN p1
       ELSE IF name.thrown \/ name.fail # "" THEN Leave(p0, name)
            ELSE IF Cur(name) = "("
            THEN IF arguments.thrown \/ arguments.fail # "" THEN Leave(p0, arguments)
                 ELSE Leave(p0, CreateNode(Call("ExpectToken", <<arguments, ")", TRUE>>), MarkEnd(nf, arguments),
                                           "InheritanceSpecifier", "", <<name.val>> \o arguments.val))
            ELSE Leave(p0, CreateNode(name, SetEndFromNode(nf, name.val), "InheritanceSpecifier", "",
                                      <<name.val>>))

\* parseFunctionDefinition recording the kind Constructor, Fallback or Receive
\* for a function that is named by that keyword
ParseFunctionDefinitionKindByName(p0, freeFunction) ==
    LET p1 == Call("Enter", <<p0>>)
        nf == Factory(p1)
        p2 == ScannerNext(p1)
        kind == IF Cur(p1) = "function" /\ Cur(p2) \in {"constructor", "fallback", "receive"}
                THEN Cur(p2) ELSE Cur(p1)
        special == ScannerNext(IF Cur(p2) = "constructor" THEN Call("ParserError", <<p2, 3323>>)
                        ELSE Call("ParserWarning", <<p2, 3445>>))
        named == IF Cur(p1) = "function"
                 THEN IF Cur(p2) \in {"constructor", "fallback", "receive"}
                      THEN Ret(special, Cur(p2))
                      ELSE ExpectIdentifierToken(p2)
                 ELSE IF kind \in {"constructor", "fallback", "receive"} THEN Ret(p2, "")
                 ELSE AssertionFailure(p1)
        header == Call("ParseFunctionHeader", <<named, FALSE>>)
        h == header.val
        nf1 == MarkEnd(nf, header)
        block == Call("ParseBlock", <<header>>)
        body == IF Cur(header) = ";" THEN Ret(ScannerNext(header), Null) ELSE block
        nf2 == IF Cur(header) = ";" THEN nf1 ELSE SetEndFromNode(nf1, block.val)
    IN IF Bad(p1) THEN p1
       ELSE IF named.thrown \/ named.fail # "" THEN Leave(p0, named)
            ELSE IF header.thrown \/ header.fail # "" THEN Leave(p0, header)
            ELSE IF body.thrown \/ body.fail # "" THEN Leave(p0, body)
            ELSE Leave(p0, CreateNodeA(body, nf2, "FunctionDefinition", named.val,
                                       <<kind, h.visibility, h.stateMutability, BoolStr(freeFunction),
                                         BoolStr(h.isVirtual)>>,
                                       <<h.parameters, h.returnParameters, h.overrides, body.val>>
                                          \o h.modifiers))

\* Parser::parseFunctionDefinition
ParseFunctionDefinition(p0, freeFunction) ==
    LET p1 == Call("Enter", <<p0>>)
        nf == Factory(p1)
        kind == Cur(p1)
        p2 == ScannerNext(p1)
        special == ScannerNext(IF Cur(p2) = "constructor" THEN Call("ParserError", <<p2, 3323>>)
                        ELSE Call("ParserWarning", <<p2, 3445>>))
        named == IF kind = "function"
                 THEN IF Cur(p2) \in {"constructor", "fallback", "receive"}
                      THEN Ret(special, Cur(p2))
                      ELSE ExpectIdentifierToken(p2)
                 ELSE IF kind \in {"constructor", "fallback", "receive"} THEN Ret(p2, "")
                 ELSE AssertionFailure(p1)
        header == Call("ParseFunctionHeader", <<named, FALSE>>)
        h == header.val
        nf1 == MarkEnd(nf, header)
        block == Call("ParseBlock", <<header>>)
        body == IF Cur(header) = ";" THEN Ret(ScannerNext(header), Null) ELSE block
        nf2 == IF Cur(header) = ";" THEN nf1 ELSE SetEndFromNode(nf1, block.val)
    IN IF Bad(p1) THEN p1
       ELSE IF named.thrown \/ named.fail # "" THEN Leave(p0, named)
            ELSE IF header.thrown \/ header.fail # "" THEN Leave(p0, header)
            ELSE IF body.thrown \/ body.fail # "" THEN Leave(p0, body)
            ELSE Leave(p0, CreateNodeA(body, nf2, "FunctionDefinition", named.val,
                                       <<kind, h.visibility, h.stateMutability, BoolStr(freeFunction),
                                         BoolStr(h.isVirtual)>>,
                                       <<h.parameters, h.returnParameters, h.overrides, body.val>>
                                          \o h.modifiers))

\* Parser::parseStructDefinition
StructLoop(p, members) ==
    IF Cur(p) = "}" THEN Ret(p, members)
    ELSE LET p1 == Call("ParseVariableDeclaration", <<p, VarDeclParserOptions, Null>>)
         IN IF p1.thrown \/ p1.fail # "" THEN p1
            ELSE Call("StructLoop", <<Call("ExpectToken", <<p1, ";", TRUE>>), Append(members, p1.val)>>)

ParseStructDefinition(p0) ==
    LET p1 == Call("Enter", <<p0>>)
        nf == Factory(p1)
        name == ExpectIdentifierToken(Call("ExpectToken", <<p1, "struct", TRUE>>))
        loop == Call("StructLoop", <<Call("ExpectToken", <<name, "{", TRUE>>), <<>>>>)
    IN IF Bad(p1) THEN p1
       ELSE IF loop.thrown \/ loop.fail # "" THEN Leave(p0, loop)
            ELSE Leave(p0, CreateNode(Call("ExpectToken", <<loop, "}", TRUE>>), MarkEnd(nf, loop), "StructDefinition",
                                      name.val, loop.val))

\* Parser::parseEnumValue
ParseEnumValue(p0) ==
    LET p1 == Call("Enter", <<p0>>)
        nf == MarkEnd(Factory(p1), p1)
        name == ExpectIdentifierToken(p1)
    IN IF Bad(p1) THEN p1
       ELSE Leave(p0, CreateNode(name, nf, "EnumValue", name.val, <<>>))

\* the loop of parseEnumDefinition
EnumLoop(p, members) ==
    IF Cur(p) = "}" THEN Ret(p, members)
    ELSE LET p1 == Call("ParseEnumValue", <<p>>)
             p2 == Call("ExpectToken", <<p1, ",", TRUE>>)
         IN IF p1.thrown \/ p1.fail # "" THEN p1
            ELSE IF Cur(p1) = "}" THEN Ret(p1, Append(members, p1.val))
            ELSE IF Cur(p2) # "Identifier" THEN Call("FatalParserError", <<p2, 1612>>)
            ELSE Call("EnumLoop", <<p2, Append(members, p1.val)>>)

\* parseEnumDefinition reporting the empty enum at the start of the definition
ParseEnumDefinitionLocatedAtStart(p0) ==
    LET p1 == Call("Enter", <<p0>>)
        nf == Factory(p1)
        name == ExpectIdentifierToken(Call("ExpectToken", <<p1, "enum", TRUE>>))
        loop == Call("EnumLoop", <<Call("ExpectToken", <<name, "{", TRUE>>), <<>>>>)
        p2 == IF loop.val = <<>> THEN Call("ParserErrorAt", <<loop, 3147, nf.s>>) ELSE loop
    IN IF Bad(p1) THEN p1
       ELSE IF loop.thrown \/ loop.fail # "" THEN Leave(p0, loop)
            ELSE Leave(p0, CreateNode(Call("ExpectToken", <<p2, "}", TRUE>>), MarkEnd(nf, p2), "EnumDefinition",
                                      name.val, loop.val))

\* Parser::parseEnumDefinition
ParseEnumDefinition(p0) ==
    LET p1 == Call("Enter", <<p0>>)
        nf == Factory(p1)
        name == ExpectIdentifierToken(Call("ExpectToken", <<p1, "enum", TRUE>>))
        loop == Call("EnumLoop", <<Call("ExpectToken", <<name, "{", TRUE>>), <<>>>>)
        p2 == IF loop.val = <<>> THEN Call("ParserError", <<loop, 3147>>) ELSE loop
    IN IF Bad(p1) THEN p1
       ELSE IF loop.thrown \/ loop.fail # "" THEN Leave(p0, loop)
            ELSE Leave(p0, CreateNode(Call("ExpectToken", <<p2, "}", TRUE>>), MarkEnd(nf, p2), "EnumDefinition",
                                      name.val, loop.val))

\* Parser::parseModifierDefinition.  The ScopeGuard clears m_insideModifier on
\* every exit of the function; it is declared after the recursion guard.
ModifierLoop(p, r) ==
    LET ovr == Call("ParseOverrideSpecifier", <<IF ~IsNull(r.overrides) THEN Call("ParserError", <<p, 9102>>) ELSE p>>)
        virt == ScannerNext(IF r.isVirtual THEN Call("ParserError", <<p, 2662>>) ELSE p)
    IN IF Cur(p) = "override"
       THEN IF ovr.thrown \/ ovr.fail # "" THEN ovr ELSE Call("ModifierLoop", <<ovr, [r EXCEPT !.overrides = ovr.val]>>)
       ELSE IF Cur(p) = "virtual" THEN Call("ModifierLoop", <<virt, [r EXCEPT !.isVirtual = TRUE]>>)
       ELSE Ret(p, r)

\* parseModifierDefinition without the ScopeGuard
ResetModifierFlagMissing(q) == q

\* parseModifierDefinition whose flag is cleared on normal return only, not
\* when a fatal error unwinds through it
ResetModifierFlagOnReturnOnly(q) ==
    IF q.thrown THEN q ELSE [q EXCEPT !.insideModifier = FALSE]

\* ScopeGuard resetModifierFlag
ResetModifierFlag(q) == [q EXCEPT !.insideModifier = FALSE]

ParseModifierDefinition(p0) ==
    LET p1 == Call("Enter", <<p0>>)
        p2 == [p1 EXCEPT !.insideModifier = TRUE]
        nf == Factory(p2)
        name == ExpectIdentifierToken(Call("ExpectToken", <<p2, "modifier", TRUE>>))
        options == [VarDeclParserOptions EXCEPT !.allowIndexed = TRUE,
                                                !.allowLocationSpecifier = TRUE]
        parameters == IF Cur(name) = "(" THEN Call("ParseParameterList", <<name, options, TRUE>>)
                      ELSE CreateEmptyParameterList(name)
        loop == Call("ModifierLoop", <<parameters, [overrides |-> Null, isVirtual |-> FALSE]>>)
        nf1 == MarkEnd(nf, loop)
        block == Call("ParseBlock", <<loop>>)
        body == IF Cur(loop) # ";" THEN block ELSE Ret(ScannerNext(loop), Null)
        nf2 == IF Cur(loop) # ";" THEN SetEndFromNode(nf1, block.val) ELSE nf1
    IN IF Bad(p1) THEN p1
       ELSE Leave(p0, ResetModifierFlag(
            IF parameters.thrown \/ parameters.fail # "" THEN parameters
            ELSE IF loop.thrown \/ loop.fail # "" THEN loop
            ELSE IF body.thrown \/ body.fail # "" THEN body
            ELSE CreateNodeA(body, nf2, "ModifierDefinition", name.val,
                             <<BoolStr(loop.val.isVirtual)>>,
                             <<parameters.val, loop.val.overrides, body.val>>)))

\* Parser::parseEventDefinition
ParseEventDefinition(p0) ==
    LET p1 == Call("Enter", <<p0>>)
        nf == Factory(p1)
        name == ExpectIdentifierToken(Call("ExpectToken", <<p1, "event", TRUE>>))
        options == [VarDeclParserOptions EXCEPT !.allowIndexed = TRUE]
        parameters == Call("ParseParameterList", <<name, options, TRUE>>)
        anonymous == Cur(parameters) = "anonymous"
        p2 == IF anonymous THEN ScannerNext(parameters) ELSE parameters
    IN IF Bad(p1) THEN p1
       ELSE IF parameters.thrown \/ parameters.fail # "" THEN Leave(p0, parameters)
            ELSE Leave(p0, CreateNodeA(Call("ExpectToken", <<p2, ";", TRUE>>), MarkEnd(nf, p2), "EventDefinition",
                                       name.val, <<BoolStr(anonymous)>>, <<parameters.val>>))

\* Parser::parseUsingDirective
ParseUsingDirective(p0) ==
    LET p1 == Call("Enter", <<p0>>)
        nf == Factory(p1)
        library == Call("ParseUserDefinedTypeName", <<Call("ExpectToken", <<p1, "using", TRUE>>)>>)
        p2 == Call("ExpectToken", <<library, "for", TRUE>>)
        typeName == IF Cur(p2) = "*" THEN Ret(ScannerNext(p2), Null) ELSE Call("ParseTypeName", <<p2>>)
    IN IF Bad(p1) THEN p1
       ELSE IF library.thrown \/ library.fail # "" THEN Leave(p0, library)
            ELSE IF typeName.thrown \/ typeName.fail # "" THEN Leave(p0, typeName)
            ELSE Leave(p0, CreateNode(Call("ExpectToken", <<typeName, ";", TRUE>>), MarkEnd(nf, typeName),
                                      "UsingForDirective", "", <<library.val, typeName.val>>))

\* Parser::parseContractDefinition
BaseLoop(p, baseContracts) ==
    LET p1 == Call("ParseInheritanceSpecifier", <<ScannerNext(p)>>)
    IN IF p1.thrown \/ p1.fail # "" THEN Ret(p1, baseContracts)
       ELSE IF Cur(p1) = "," THEN Call("BaseLoop", <<p1, Append(baseContracts, p1.val)>>)
       ELSE Ret(p1, Append(baseContracts, p1.val))

ContractLoop(p, subNodes) ==
    LET currentTokenValue == Cur(p)
        options == [VarDeclParserOptions EXCEPT !.isStateVariable = TRUE,
                                                !.allowInitialValue = TRUE]
        var == Call("ParseVariableDeclaration", <<p, options, Null>>)
        sub ==
            IF (currentTokenValue = "function" /\ Peek(p) # "(")
               \/ currentTokenValue \in {"constructor", "receive", "fallback"}
            THEN Call("ParseFunctionDefinition", <<p, FALSE>>)
            ELSE IF currentTokenValue = "struct" THEN Call("ParseStructDefinition", <<p>>)
            ELSE IF currentTokenValue = "enum" THEN Call("ParseEnumDefinition", <<p>>)
            ELSE IF currentTokenValue = "Identifier" \/ currentTokenValue = "mapping"
                    \/ currentTokenValue \in ElementaryTypeNames
                    \/ (currentTokenValue = "function" /\ Peek(p) = "(")
            THEN IF var.thrown \/ var.fail # "" THEN var ELSE Ret(Call("ExpectToken", <<var, ";", TRUE>>), var.val)
            ELSE IF currentTokenValue = "modifier" THEN Call("ParseModifierDefinition", <<p>>)
            ELSE IF currentTokenValue = "event" THEN Call("ParseEventDefinition", <<p>>)
            ELSE IF currentTokenValue = "using" THEN Call("ParseUsingDirective", <<p>>)
            ELSE Call("FatalParserError", <<p, 9182>>)
    IN IF currentTokenValue = "}" THEN Ret(p, subNodes)
       ELSE IF sub.thrown \/ sub.fail # "" THEN Ret(sub, subNodes)
       ELSE IF sub.pos = p.pos THEN Diverge(Ret(sub, subNodes))
       ELSE Call("ContractLoop", <<sub, Append(subNodes, sub.val)>>)

ParseContractDefinition(p0) ==
    LET p1 == Call("Enter", <<p0>>)
        nf == Factory(p1)
        contractKind == Call("ParseContractKind", <<p1>>)
        name == ExpectIdentifierToken(contractKind)
        bases == IF Cur(name) = "is" THEN Call("BaseLoop", <<name, <<>>>>) ELSE Ret(name, <<>>)
        body == IF bases.thrown \/ bases.fail # "" THEN Ret(bases, <<>>)
                ELSE Call("ContractLoop", <<Call("ExpectToken", <<bases, "{", TRUE>>), <<>>>>)
        caught == CatchInContractDefinition(body)
        nf1 == MarkEnd(nf, caught)
        close == IF caught.inRec THEN ExpectTokenOrConsumeUntil(caught, "}")
                 ELSE Call("ExpectToken", <<caught, "}", TRUE>>)
    IN IF Bad(p1) THEN p1
       ELSE IF body.fail # "" THEN Leave(p0, body)
            ELSE IF caught.thrown THEN Leave(p0, caught)
            ELSE IF close.thrown THEN Leave(p0, close)
            ELSE Leave(p0, CreateNodeA(close, nf1, "ContractDefinition", name.val, contractKind.val,
                                       bases.val \o body.val))

\* ------------------------------------------- specification expressions
\* Parser::parseSpecificationVariableDeclaration
ParseSpecificationVariableDeclaration(p0, type0) ==
    LET p1 == Call("Enter", <<p0>>)
        nf == Factory(p1)
        pt == IF IsNull(type0) THEN Call("ParseTypeName", <<p1>>) ELSE Ret(p1, type0)
        type == pt.val
        nf1 == IF IsNull(type0) /\ ~IsNull(type) THEN SetEndFromNode(nf, type) ELSE nf
        isStateVariable == type.kind \in {"Mapping", "ArrayTypeName"}
        p2 == IF type.kind \in {"ElementaryTypeName", "Mapping", "ArrayTypeName"} THEN pt
              ELSE Call("ParserError", <<pt, 5674>>)
        identifier == ExpectIdentifierToken(p2)
    IN IF Bad(p1) THEN p1
       ELSE IF pt.thrown \/ pt.fail # "" THEN Leave(p0, pt)
            ELSE Leave(p0, CreateNodeA(identifier, MarkEnd(nf1, identifier), "VariableDeclaration",
                                       identifier.val,
                                       <<"default", BoolStr(isStateVariable), "false", "mutable",
                                         "unspecified">>,
                                       <<type, Null, Null>>))

\* Parser::parseSpecificationParameterList
SpecificationParameterLoop(p, type, parameters) ==
    IF Cur(p) = ")" THEN Ret(p, parameters)
    ELSE IF Cur(p) = "," /\ Peek(p) = ")" THEN Call("FatalParserError", <<p, 6155>>)
    ELSE LET p1 == Call("ParseSpecificationVariableDeclaration", <<Call("ExpectToken", <<p, ",", TRUE>>), type>>)
         IN IF p1.thrown \/ p1.fail # "" THEN p1
            ELSE IF p1.pos = p.pos THEN Diverge(p1)
            ELSE Call("SpecificationParameterLoop", <<p1, type, Append(parameters, p1.val)>>)

ParseSpecificationParameterList(p0, type) ==
    LET p1 == Call("Enter", <<p0>>)
        nf == Factory(p1)
        first == Call("ParseSpecificationVariableDeclaration", <<Call("ExpectToken", <<p1, "(", TRUE>>), type>>)
        list == IF first.thrown \/ first.fail # "" THEN first
                ELSE Call("SpecificationParameterLoop", <<first, type, <<first.val>>>>)
    IN IF Bad(p1) THEN p1
       ELSE IF list.thrown \/ list.fail # "" THEN Leave(p0, list)
            ELSE Leave(p0, CreateNode(ScannerNext(list), MarkEnd(nf, list), "ParameterList", "", list.val))

\* the quantifier loop recording a flag for forall only
QuantifierLoopFlaggingForallOnly(p, info) ==
    IF Cur(p) = "Identifier" /\ Lit(p) \in {"forall", "exists"}
    THEN LET vars == Call("ParseSpecificationParameterList", <<ScannerNext(p), Null>>)
         IN IF vars.thrown \/ vars.fail # "" THEN vars
            ELSE Call("QuantifierLoop", <<vars,
                    [info EXCEPT !.isForall = IF Lit(p) = "forall" THEN Append(@, TRUE) ELSE @,
                                 !.quantifierList = Append(@, vars.val)]>>)
    ELSE Ret(p, info)

\* Parser::parseSpecificationExpression(SpecificationExpressionInfo&) (takes
\* no recursion guard).  val is the expression together with info.
QuantifierLoop(p, info) ==
    IF Cur(p) = "Identifier" /\ Lit(p) \in {"forall", "exists"}
    THEN LET vars == Call("ParseSpecificationParameterList", <<ScannerNext(p), Null>>)
         IN IF vars.thrown \/ vars.fail # "" THEN vars
            ELSE Call("QuantifierLoop", <<vars,
                    [info EXCEPT !.isForall = Append(@, Lit(p) = "forall"),
                                 !.quantifierList = Append(@, vars.val)]>>)
    ELSE Ret(p, info)

EmptyInfo == [arrayId |-> Null, quantifierList |-> <<>>, isForall |-> <<>>]

ParseSpecificationExpressionInfo(p0) ==
    LET p1 == EnterU(p0)
        type == CreateNode(p1, Factory(p1), "ElementaryTypeName", "uint", <<>>)
        arrayId == Call("ParseIdentifier", <<Call("ExpectToken", <<ScannerNext(type), "(", TRUE>>)>>)
        vars == Call("ParseSpecificationParameterList", <<Call("ExpectToken", <<arrayId, ")", TRUE>>), type.val>>)
        property == IF arrayId.thrown \/ arrayId.fail # "" THEN arrayId
                    ELSE IF vars.thrown \/ vars.fail # "" THEN vars
                    ELSE Ret(vars, [arrayId |-> arrayId.val, quantifierList |-> <<vars.val>>,
                                    isForall |-> <<TRUE>>])
        info == IF Cur(p1) = "Identifier" /\ Lit(p1) = "property" THEN property
                ELSE Call("QuantifierLoop", <<p1, EmptyInfo>>)
        expression == Call("ParseExpression", <<info, Null>>)
    IN IF info.thrown \/ info.fail # "" THEN LeaveU(p0, info)
         ELSE IF expression.thrown \/ expression.fail # "" THEN LeaveU(p0, expression)
         ELSE LeaveU(p0, Ret(expression, [expression |-> expression.val, info |-> info.val]))

\* -------------------------------------------------------- license scanner
\* Parser::findLicenseString.  lic[k + 1] is the number of license comments
\* in the gap at offset 2k.  The regions searched are what the nodes leave
\* uncovered; a region yields at most one match.
RECURSIVE SequencesToSearch(_, _, _, _)
SequencesToSearch(nodes, i, sequences, length) ==
    IF i > Len(nodes) THEN sequences
    ELSE LET node == nodes[i]
             hasText == 0 <= node.s /\ node.s <= node.e /\ node.e <= length
             last == Len(sequences)
         IN IF hasText
            THEN SequencesToSearch(nodes, i + 1,
                    Append([sequences EXCEPT ![last].second = node.s],
                           [first |-> node.e, second |-> length]), length)
            ELSE SequencesToSearch(nodes, i + 1, sequences, length)

RegexSearch(p, sequence) ==
    \E k \in 0..Len(p.toks) :
        p.lic[k + 1] > 0 /\ sequence.first <= 2 * k /\ 2 * k < sequence.second

FindLicenseString(p, nodes) ==
    LET sequencesToSearch ==
            SequencesToSearch(nodes, 1, <<[first |-> 0, second |-> SourceLength(p)]>>,
                              SourceLength(p))
        matches == Cardinality({i \in 1..Len(sequencesToSearch) :
                                    RegexSearch(p, sequencesToSearch[i])})
    IN IF matches = 1 THEN Ret(p, "license")
       ELSE IF matches = 0 THEN Ret(Call("ParserWarningAt", <<p, 1878, -1>>), "")
       ELSE Ret(Call("ParserErrorAt", <<p, 3716, -1>>), "")

\* ------------------------------------------------------------ the drivers
\* m_scanner = _scanner
SetScanner(p, scanner) ==
    [p EXCEPT !.toks = scanner.toks,
              !.kinds = [i \in 1..Len(scanner.toks) |-> Kind(scanner.toks[i])],
              !.lic = scanner.lic, !.pos = 1]

\* the loop of Parser::parse
UnitLoop(p, nodes) ==
    LET token == Cur(p)
        node == CASE token = "pragma" -> Call("ParsePragmaDirective", <<p>>)
                  [] token = "import" -> Call("ParseImportDirective", <<p>>)
                  [] token \in {"abstract", "interface", "contract", "library"} ->
                        Call("ParseContractDefinition", <<p>>)
                  [] token = "struct" -> Call("ParseStructDefinition", <<p>>)
                  [] token = "enum" -> Call("ParseEnumDefinition", <<p>>)
                  [] token = "function" -> Call("ParseFunctionDefinition", <<p, TRUE>>)
                  [] OTHER -> Call("FatalParserError", <<p, 7858>>)
    IN IF token = "EOS" THEN Ret(p, nodes)
       ELSE IF node.thrown \/ node.fail # "" THEN node
       ELSE IF node.pos = p.pos THEN Diverge(node)
       ELSE Call("UnitLoop", <<node, Append(nodes, node.val)>>)

\* parse with a catch block that always throws the fatal error again
ParseAlwaysRethrowing(p0, scanner) ==
    LET p1 == SetScanner([p0 EXCEPT !.depth = 0], scanner)
        nf == Factory(p1)
        loop == Call("UnitLoop", <<p1, <<>>>>)
        license == Call("FindLicenseString", <<loop, loop.val>>)
        body == IF loop.thrown \/ loop.fail # "" THEN loop
                ELSE IF loop.depth # 0 THEN AssertionFailure(loop)
                ELSE CreateNodeA(license, nf, "SourceUnit", license.val, <<>>, loop.val)
    IN IF p0.insideModifier THEN AssertionFailure(p0)
       ELSE IF body.fail # "" THEN body
       ELSE IF body.thrown THEN [body EXCEPT !.driver = "rethrown"]
       ELSE [body EXCEPT !.driver = "returned"]

\* Parser::parse
Parse(p0, scanner) ==
    LET p1 == SetScanner([p0 EXCEPT !.depth = 0], scanner)
        nf == Factory(p1)
        loop == Call("UnitLoop", <<p1, <<>>>>)
        license == Call("FindLicenseString", <<loop, loop.val>>)
        body == IF loop.thrown \/ loop.fail # "" THEN loop
                ELSE IF loop.depth # 0 THEN AssertionFailure(loop)
                ELSE CreateNodeA(license, nf, "SourceUnit", license.val, <<>>, loop.val)
    IN IF p0.insideModifier THEN AssertionFailure(p0)
       ELSE IF body.fail # "" THEN body
       ELSE IF body.thrown
       THEN IF body.errs = <<>> THEN [body EXCEPT !.driver = "rethrown"]
            ELSE [body EXCEPT !.thrown = FALSE, !.val = Null, !.driver = "suppressed"]
       ELSE [body EXCEPT !.driver = "returned"]

\* Parser::parseExpression(shared_ptr<Scanner> const&)
ParseExpressionFromScanner(p0, scanner) ==
    LET p1 == SetScanner([p0 EXCEPT !.depth = 0], scanner)
        result == Call("ParseExpression", <<p1, Null>>)
        body == IF result.thrown \/ result.fail # "" THEN result
                ELSE IF result.depth # 0 THEN AssertionFailure(result)
                ELSE IF Cur(result) # "EOS" THEN Ret(Call("ParserError", <<result, 4272>>), result.val)
                ELSE result
    IN IF body.fail # "" THEN body
       ELSE IF body.thrown
       THEN IF body.errs = <<>> THEN [body EXCEPT !.driver = "rethrown"]
            ELSE [body EXCEPT !.thrown = FALSE, !.val = Null, !.driver = "suppressed"]
       ELSE [body EXCEPT !.driver = "returned"]

\* Parser::parseSpecificationExpression(shared_ptr<Scanner> const&,
\* SpecificationExpressionInfo&)
ParseSpecificationExpressionFromScanner(p0, scanner) ==
    LET p1 == SetScanner([p0 EXCEPT !.depth = 0], scanner)
        result == Call("ParseSpecificationExpressionInfo", <<p1>>)
        body == IF result.thrown \/ result.fail # "" THEN result
                ELSE IF result.depth # 0 THEN AssertionFailure(result)
                ELSE IF Cur(result) # "EOS" THEN Ret(Call("ParserError", <<result, 1553>>), result.val)
                ELSE result
    IN IF body.fail # "" THEN body
       ELSE IF body.thrown
       THEN IF body.errs = <<>> THEN [body EXCEPT !.driver = "rethrown"]
            ELSE [body EXCEPT !.thrown = FALSE, !.val = Null, !.driver = "suppressed"]
       ELSE [body EXCEPT !.driver = "returned"]

\* Parser::parseSpecificationExpression(shared_ptr<Scanner> const&,
\* vector<SpecificationCase>&): val is the vector of cases
CaseLoop(p, cases) ==
    IF Cur(p) # "case" THEN Ret(p, cases)
    ELSE LET pre == Call("ParseSpecificationExpressionInfo", <<ScannerNext(p)>>)
             post == Call("ParseSpecificationExpressionInfo", <<Call("ExpectToken", <<pre, ":", TRUE>>)>>)
             specCase == [precondition |-> pre.val.expression,
                          preconditionInfo |-> pre.val.info,
                          postcondition |-> post.val.expression,
                          postconditionInfo |-> post.val.info]
         IN IF pre.thrown \/ pre.fail # "" THEN Ret(pre, cases)
            ELSE IF post.thrown \/ post.fail # "" THEN Ret(post, cases)
            ELSE Call("CaseLoop", <<Call("ExpectToken", <<post, ";", TRUE>>), Append(cases, specCase)>>)

ParseSpecificationCases(p0, scanner) ==
    LET p1 == SetScanner([p0 EXCEPT !.depth = 0], scanner)
        loop == Call("CaseLoop", <<Call("ExpectToken", <<p1, "[", TRUE>>), <<>>>>)
        p2 == Call("ExpectToken", <<loop, "]", TRUE>>)
        body == IF loop.thrown \/ loop.fail # "" THEN loop
                ELSE IF p2.depth # 0 THEN AssertionFailure(p2)
                ELSE IF Cur(p2) # "EOS" THEN Ret(Call("ParserError", <<p2, 2180>>), loop.val)
                ELSE Ret(p2, loop.val)
    IN IF body.fail # "" THEN body
       ELSE IF body.thrown
       THEN IF body.errs = <<>> THEN [body EXCEPT !.driver = "rethrown"]
            ELSE [body EXCEPT !.thrown = FALSE, !.driver = "suppressed"]
       ELSE [body EXCEPT !.driver = "returned"]

\* The call of a member function by its name.  The functions of the grammar
\* are mutually recursive; they call one another, and the functions of
\* ParserBase that guard the depth and report errors, through this one
\* operator, which is the only recursive one of the grammar.
Call(name, args) ==
    CASE name = "ParseExpression" -> ParseExpression(args[1], args[2])
      [] name = "ParseBinaryExpression" -> ParseBinaryExpression(args[1], args[2], args[3])
      [] name = "BinaryLoop" -> BinaryLoop(args[1], args[2], args[3], args[4], args[5])
      [] name = "ParseUnaryExpression" -> ParseUnaryExpression(args[1], args[2])
      [] name = "ParseLeftHandSideExpression" -> ParseLeftHandSideExpression(args[1], args[2])
      [] name = "SuffixLoop" -> SuffixLoop(args[1], args[2], args[3])
      [] name = "ParsePrimaryExpression" -> ParsePrimaryExpression(args[1])
      [] name = "TupleLoop" -> TupleLoop(args[1], args[2], args[3], args[4])
      [] name = "ParseFunctionCallListArguments" -> ParseFunctionCallListArguments(args[1])
      [] name = "ArgumentLoop" -> ArgumentLoop(args[1], args[2])
      [] name = "ParseFunctionCallArguments" -> ParseFunctionCallArguments(args[1])
      [] name = "ParseNamedArguments" -> ParseNamedArguments(args[1])
      [] name = "NamedLoop" -> NamedLoop(args[1], args[2], args[3], args[4])
      [] name = "ParseTypeName" -> ParseTypeName(args[1])
      [] name = "ParseTypeNameSuffix" -> ParseTypeNameSuffix(args[1], args[2], args[3])
      [] name = "ParseFunctionType" -> ParseFunctionType(args[1])
      [] name = "ParseMapping" -> ParseMapping(args[1])
      [] name = "ParseFunctionHeader" -> ParseFunctionHeader(args[1], args[2])
      [] name = "HeaderLoop" -> HeaderLoop(args[1], args[2], args[3])
      [] name = "ParseParameterList" -> ParseParameterList(args[1], args[2], args[3])
      [] name = "ParameterLoop" -> ParameterLoop(args[1], args[2], args[3])
      [] name = "ParseVariableDeclaration" -> ParseVariableDeclaration(args[1], args[2], args[3])
      [] name = "VarDeclLoop" -> VarDeclLoop(args[1], args[2], args[3], args[4])
      [] name = "ParseOverrideSpecifier" -> ParseOverrideSpecifier(args[1])
      [] name = "OverrideLoop" -> OverrideLoop(args[1], args[2])
      [] name = "ParseModifierInvocation" -> ParseModifierInvocation(args[1])
      [] name = "UserDefinedPathLoop" -> UserDefinedPathLoop(args[1], args[2], args[3])
      [] name = "TypeNameSuffixLoop" -> TypeNameSuffixLoop(args[1], args[2], args[3])
      [] name = "ParseStatement" -> ParseStatement(args[1])
      [] name = "ParseBlock" -> ParseBlock(args[1])
      [] name = "BlockLoop" -> BlockLoop(args[1], args[2])
      [] name = "ParseIfStatement" -> ParseIfStatement(args[1])
      [] name = "ParseWhileStatement" -> ParseWhileStatement(args[1])
      [] name = "ParseSimpleStatement" -> ParseSimpleStatement(args[1])
      [] name = "PathLoop" -> PathLoop(args[1], args[2])
      [] name = "IndexLoop" -> IndexLoop(args[1], args[2])
      [] name = "ArrayTypeLoop" -> ArrayTypeLoop(args[1], args[2], args[3], args[4])
      [] name = "MemberLoop" -> MemberLoop(args[1], args[2], args[3], args[4])
      [] name = "AccessLoop" -> AccessLoop(args[1], args[2], args[3], args[4])
      [] name = "EmptyComponentLoop" -> EmptyComponentLoop(args[1], args[2])
      [] name = "TupleDeclarationLoop" -> TupleDeclarationLoop(args[1], args[2], args[3])
      [] name = "TupleComponentLoop" -> TupleComponentLoop(args[1], args[2])
      [] name = "EmitPathLoop" -> EmitPathLoop(args[1], args[2])
      [] name = "CatchLoop" -> CatchLoop(args[1], args[2])
      [] name = "PragmaLoop" -> PragmaLoop(args[1], args[2])
      [] name = "AliasLoop" -> AliasLoop(args[1], args[2])
      [] name = "StructLoop" -> StructLoop(args[1], args[2])
      [] name = "EnumLoop" -> EnumLoop(args[1], args[2])
      [] name = "ModifierLoop" -> ModifierLoop(args[1], args[2])
      [] name = "BaseLoop" -> BaseLoop(args[1], args[2])
      [] name = "ContractLoop" -> ContractLoop(args[1], args[2])
      [] name = "SpecificationParameterLoop" -> SpecificationParameterLoop(args[1], args[2], args[3])
      [] name = "QuantifierLoop" -> QuantifierLoop(args[1], args[2])
      [] name = "UnitLoop" -> UnitLoop(args[1], args[2])
      [] name = "CaseLoop" -> CaseLoop(args[1], args[2])
      [] name = "ParseIdentifier" -> ParseIdentifier(args[1])
      [] name = "ParseUserDefinedTypeName" -> ParseUserDefinedTypeName(args[1])
      [] name = "ParseVisibilitySpecifier" -> ParseVisibilitySpecifier(args[1])
      [] name = "ParseStateMutability" -> ParseStateMutability(args[1])
      [] name = "ParseIndexAccessedPath" -> ParseIndexAccessedPath(args[1])
      [] name = "TryParseIndexAccessedPath" -> TryParseIndexAccessedPath(args[1])
      [] name = "TypeNameFromIndexAccessStructure" -> TypeNameFromIndexAccessStructure(args[1], args[2])
      [] name = "ExpressionFromIndexAccessStructure" -> ExpressionFromIndexAccessStructure(args[1], args[2])
      [] name = "ParseExpressionStatement" -> ParseExpressionStatement(args[1], args[2])
      [] name = "ParseVariableDeclarationStatement" -> ParseVariableDeclarationStatement(args[1], args[2])
      [] name = "ParseInlineAssembly" -> ParseInlineAssembly(args[1])
      [] name = "ParseEmitStatement" -> ParseEmitStatement(args[1])
      [] name = "ParseDoWhileStatement" -> ParseDoWhileStatement(args[1])
      [] name = "ParseForStatement" -> ParseForStatement(args[1])
      [] name = "ParseCatchClause" -> ParseCatchClause(args[1])
      [] name = "ParseTryStatement" -> ParseTryStatement(args[1])
      [] name = "ParsePragmaVersion" -> ParsePragmaVersion(args[1], args[2], args[3])
      [] name = "ParsePragmaDirective" -> ParsePragmaDirective(args[1])
      [] name = "ParseImportDirective" -> ParseImportDirective(args[1])
      [] name = "ParseContractKind" -> ParseContractKind(args[1])
      [] name = "ParseInheritanceSpecifier" -> ParseInheritanceSpecifier(args[1])
      [] name = "ParseFunctionDefinition" -> ParseFunctionDefinition(args[1], args[2])
      [] name = "ParseStructDefinition" -> ParseStructDefinition(args[1])
      [] name = "ParseEnumValue" -> ParseEnumValue(args[1])
      [] name = "ParseEnumDefinition" -> ParseEnumDefinition(args[1])
      [] name = "ParseModifierDefinition" -> ParseModifierDefinition(args[1])
      [] name = "ParseEventDefinition" -> ParseEventDefinition(args[1])
      [] name = "ParseUsingDirective" -> ParseUsingDirective(args[1])
      [] name = "ParseContractDefinition" -> ParseContractDefinition(args[1])
      [] name = "ParseSpecificationVariableDeclaration" -> ParseSpecificationVariableDeclaration(args[1], args[2])
      [] name = "ParseSpecificationParameterList" -> ParseSpecificationParameterList(args[1], args[2])
      [] name = "ParseSpecificationExpressionInfo" -> ParseSpecificationExpressionInfo(args[1])
      [] name = "FindLicenseString" -> FindLicenseString(args[1], args[2])
      [] name = "Parse" -> Parse(args[1], args[2])
      [] name = "ParseExpressionFromScanner" -> ParseExpressionFromScanner(args[1], args[2])
      [] name = "ParseSpecificationExpressionFromScanner" -> ParseSpecificationExpressionFromScanner(args[1], args[2])
      [] name = "ParseSpecificationCases" -> ParseSpecificationCases(args[1], args[2])
      [] name = "Enter" -> Enter(args[1])
      [] name = "ExpectToken" -> ExpectToken(args[1], args[2], args[3])
      [] name = "FatalParserError" -> FatalParserError(args[1], args[2])
      [] name = "FatalParserErrorAt" -> FatalParserErrorAt(args[1], args[2], args[3])
      [] name = "ParserError" -> ParserError(args[1], args[2])
      [] name = "ParserErrorAt" -> ParserErrorAt(args[1], args[2], args[3])
      [] name = "ParserWarning" -> ParserWarning(args[1], args[2])
      [] name = "ParserWarningAt" -> ParserWarningAt(args[1], args[2], args[3])

\* ------------------------------------------------------------ the parser
\* A Parser as constructed: no scanner yet, depth 0, not in recovery, not
\* inside a modifier, an empty reporter and no node id handed out.
NewParser(errorRecovery) ==
    [toks |-> <<>>, kinds |-> <<>>, lic |-> <<0>>, pos |-> 1, depth |-> 0, inRec |-> FALSE, resyncs |-> 0,
     insideModifier |-> FALSE, recovery |-> errorRecovery, errs |-> <<>>, nid |-> 0,
     thrown |-> FALSE, fail |-> "", val |-> Null, driver |-> "",
     created |-> <<>>, recov |-> <<>>, looks |-> <<>>, typed |-> <<>>, tuples |-> <<>>, flagged |-> <<>>,
     run |-> 0, peakRun |-> 0, peakDepth |-> 0]

\* ---------------------------------------------------------------- inputs
\* All token sequences of at most n tokens over an alphabet.
Fragments(alphabet, n) == UNION {[1..k -> alphabet] : k \in 0..n}

StatementTokens ==
    {"x", "_", ";", "(", ")", "+", "=", "uint", "[", "]", "{", "}", "return", "-"}
DeclarationTokens ==
    {"uint", "x", ";", "function", "(", ")", "{", "}", "modifier", "public", "pure",
     "override", "virtual", "=", "enum", "struct"}
TopLevelTokens ==
    {"pragma", "solidity", "0", "1", "ILLEGAL", ";", "enum", "E", "{", "}", ",",
     "import", "\"s\"", "\"\"", "contract", "function"}
LicenseTokens == {"enum", "E", "{", "}", "pragma", ";"}
ExpressionTokens ==
    {"x", "1", "(", ")", "[", "]", ",", "+", "*", "-", "=", "?", ":", ".", "{", "}"}
QuantifierTokens == {"i", "j", ",", ")", "(", "uint", "forall", "true", "["}

\* contract C { function f() { <fragment> } }
InFunction(fragment) ==
    <<"contract", "C", "{", "function", "f", "(", ")", "{">> \o fragment \o <<"}", "}">>
\* contract C { modifier m { <fragment> } }
InModifier(fragment) ==
    <<"contract", "C", "{", "modifier", "m", "{">> \o fragment \o <<"}", "}">>
\* two errors are reported before the contract is reached
AfterErrors(fragment) ==
    <<"pragma", "ILLEGAL", "ILLEGAL", ";">> \o InFunction(fragment)
\* contract C { <fragment> }
InContract(fragment) == <<"contract", "C", "{">> \o fragment \o <<"}">>
\* property(a) (<fragment>) true
InProperty(fragment) ==
    <<"property", "(", "a", ")", "(">> \o fragment \o <<")", "true">>
\* forall (<fragment>
InQuantifier(fragment) == <<"forall", "(">> \o fragment
\* [ case <fragment> : x ; ]
InCase(fragment) == <<"[", "case">> \o fragment \o <<":", "x", ";", "]">>

\* Sources chosen for the constructs the short fragments do not reach.
Statements ==
    {<<"x", "[", "[", ",", "1", "]", ":", "]", "y", ";">>,
     <<"x", "[", "1", ":", "2", "]", "y", ";">>,
     <<"x", "[", "1", "]", "[", "2", "]", "y", ";">>,
     <<"x", ".", "y", "[", "1", "]", "=", "2", ";">>,
     <<"(", "(", "(", "x", ")", ")", ")", ";">>,
     <<"(", "uint", "a", ",", "x", "b", ")", "=", "f", "(", ")", ";">>,
     <<"(", ",", "x", ".", "y", ",", ")", "=", "1", ";">>,
     <<"if", "(", "x", ")", "+", ";">>,
     <<"if", "(", "x", ")", "x", ";", "else", "{", "}">>,
     <<"while", "(", "x", ")", "+", ";">>,
     <<"for", "(", "uint", "i", "=", "0", ";", "i", "<", "1", ";", "i", "++", ")", "{", "}">>,
     <<"do", "{", "}", "while", "(", "x", ")", ";">>,
     <<"try", "x", "(", ")", "returns", "(", "uint", "a", ")", "{", "}", "catch", "{", "}">>,
     <<"try", "x", "(", ")", "{", "}", "catch", "{", "}">>,
     <<"try", "x", "{", "a", ":", "1", "}", "(", ")", "{", "x", ";", "}", "catch", "{", "}">>,
     <<"try", "x", "{", "a", ";", "}", "catch", "{", "}">>,
     <<"emit", "E", ".", "F", "(", "{", "a", ":", "1", "}", ")", ";">>,
     <<"emit", ";">>,
     <<"assembly", "{", "{", "}", "}", "x", ";">>,
     <<"assembly", "\"evmasm\"", "{", "}">>,
     <<"assembly", "\"other\"", "{", "}">>,
     <<"assembly", "{">>,
     <<"+", ";", "+", ";", "+", ";", "x", ";">>,
     <<"+", ";", "{", "+", "}", "x", ";">>,
     <<"{", "_", ";", "}", "_", ";">>,
     <<"return", "x", "+", "1", ";", "continue", ";", "break", ";", "throw", ";">>,
     <<"-", "-", "-", "x", ";">>,
     <<"f", "(", "{", "a", ":", "1", ",", "}", ")", ";">>,
     <<"mapping", "(", "uint", "=>", "x", ")", "storage", "m", ";">>,
     <<"x", ".", "y", ".", "z", "[", "1", "]", "[", "2", "]", "a", ";">>,
     <<"x", "[", "]", "memory", "a", ";">>,
     <<"uint", "[", "]", "[", "1", "]", "storage", "a", "=", "b", ";">>,
     <<"uint", ".", "max", ";">>,
     <<"function", "(", ")", "x", ";">>,
     <<"(", "uint", "x", ",", ",", "uint", "z", ")", "=", "g", "(", ")", ";">>,
     <<"(", ",", "x", "[", "1", "]", "y", ",", ")", "=", "1", ";">>,
     <<"(", "uint", "x", "uint", "y", ")", "=", "1", ";">>,
     <<"(", "x", "[", "f", "(", "1", ",", "2", ")", "]", "a", ",", "uint", "b", ")", "=", "x", ";">>,
     <<"(", "uint", "a", ")", "b", ";">>,
     <<"x", ".", "y", "[", "1", "]", "=", "2", ";">>,
     <<"x", "[", "1", ":", "]", ".", "y", "(", ")", ";">>,
     <<"uint", "[", "]", ".", "x", ";">>,
     <<"x", ".", "address", ";">>,
     <<"x", ".", "address", ".", "y", "[", "1", "]", ";">>,
     <<"x", "[", "1", "]", ".", "address", ";">>,
     <<"(", ")", ";">>,
     <<"(", ",", ")", ";">>,
     <<"(", ",", "x", ",", ")", "=", "y", ";">>,
     <<"(", "x", ",", ",", "y", ".", "z", ")", "=", "(", "1", ",", ")", ";">>,
     <<"(", "x", ".", "y", "[", "1", "]", ")", ".", "z", "(", ")", ";">>}

Units ==
    {<<>>,
     <<"pragma", "solidity", "0", ";">>,
     <<"pragma", "solidity", "ILLEGAL", "1", ";">>,
     <<"pragma", "solidity", "1", ";", "enum", "E", "{", "a", "}">>,
     <<"pragma", "solidity", "0", "1">>,
     <<"pragma", "solidity", "ILLEGAL", "ILLEGAL", "1", ";", "contract", "C", "{", "}">>,
     <<"pragma", "experimental", "x", ";", "enum", "E", "{", "a", ",", "b", "}">>,
     <<"enum", "E", "{", "}", "struct", "S", "{", "uint", "x", ";", "}">>,
     <<"import", "*", "as", "x", "from", "\"s\"", ";">>,
     <<"import", "{", "a", "as", "b", ",", "c", "}", "from", "\"s\"", ";">>,
     <<"import", "\"s\"", "as", "x", ";", "import", "x">>,
     <<"abstract", "contract", "C", "is", "B", "(", "1", ")", ",", "D", "{", "}">>,
     <<"function", "f", "(", "uint", "a", ")", "pure", "returns", "(", "uint", ")", "{", "}">>,
     <<"function", "constructor", "(", ")", "public", "public", "virtual", "virtual", ";">>,
     <<"contract", "C", "{", "modifier", "m", "{", "_", ";", "}",
       "function", "f", "(", ")", "{", "_", ";", "}", "}">>,
     <<"contract", "C", "{", "modifier", "m", "(", "uint", "a", ")", "virtual", "override", "{",
       "{", "_", ";", "}", "}", "constructor", "(", ")", "{", "_", ";", "}", "}">>,
     <<"contract", "C", "{", "modifier", "m", "{", "+", "}", "function", "f", "(", ")", "{",
       "_", ";", "}", "}">>,
     <<"contract", "C", "{", "modifier", "m", "(", "uint", "a", ",", "+", ")", ";", "}",
       "function", "f", "(", ")", "{", "_", ";", "}">>,
     <<"contract", "C", "{", "function", "f", "(", ")", "m", "(", "1", ")", "override", "(",
       "A", ",", "B", ")", "{", "}", "}">>,
     <<"contract", "C", "{", "uint", "[", "]", "public", "constant", "x", "=", "1", ";",
       "event", "E", "(", "uint", "indexed", "a", ")", "anonymous", ";",
       "using", "L", "for", "*", ";", "}">>,
     <<"contract", "C", "{", "function", "(", ")", "external", "x", ";", "+", "}">>,
     <<"contract", "C", "{", "function", "f", "(", ")", "{", "+", "}">>,
     <<"contract", "C", "{", "+", "}", "contract", "D", "{", "}">>,
     <<"contract", "C", "{", "fallback", "(", ")", "external", ";",
       "receive", "(", ")", "external", "payable", ";",
       "function", "receive", "(", ")", "public", ";", "}">>,
     <<"function", "fallback", "(", ")", ";", "function", "(", ")", ";">>,
     <<"contract", "C", "{", "uint", "public", "private", "constant", "immutable", "x", ";",
       "uint", "override", "override", "y", ";", "}">>,
     <<"contract", "C", "{", "event", "E", "(", "uint", "indexed", "indexed", "a", ")", ";", "}">>,
     <<"function", "f", "(", "uint", "memory", "storage", "a", ")", ";">>,
     <<"function", "f", "(", ")", "pure", "view", "public", "external", "override", "override",
       "returns", "(", "uint", ")", ";">>,
     <<"contract", "C", "{", "function", "(", ")", "external", "public", "x", ";",
       "function", "(", ")", "public", "external", "pure", "y", ";", "}">>,
     <<"contract", "C", "{", "function", "(", ")", "external", "pure", "x", ";", "}">>,
     <<"contract", "C", "{", "function", "(", ")", "view", "internal", "pure", "private", "y",
       ";", "}">>,
     <<"contract", "C", "{", "function", "(", ")", "internal", "external", "x", ";", "}">>,
     <<"function", "f", "(", ")", "override", "(", "A">>}

\* The license comments of a source of n tokens: none, one or two in the
\* leading gap, one in the leading and one in the trailing gap, one in the gap
\* after the first token.
LicenseLayouts(n) ==
    {[k \in 1..n + 1 |-> 0],
     [k \in 1..n + 1 |-> IF k = 1 THEN 1 ELSE 0],
     [k \in 1..n + 1 |-> IF k = 1 THEN 2 ELSE 0],
     [k \in 1..n + 1 |-> IF k = 1 \/ k = n + 1 THEN 1 ELSE 0],
     [k \in 1..n + 1 |-> IF k = 2 \/ k = n + 1 THEN 1 ELSE 0]}

NoLicense(toks) == [toks |-> toks, lic |-> [k \in 1..Len(toks) + 1 |-> 0]]
Licensed(sources) ==
    {[toks |-> toks, lic |-> lic] : <<toks, lic>> \in
        UNION {{t} \X LicenseLayouts(Len(t)) : t \in sources}}

UnitScanners ==
    {NoLicense(InFunction(f)) : f \in Fragments(StatementTokens, MaxFragment) \cup Statements}
    \cup {NoLicense(InModifier(f)) : f \in Fragments(StatementTokens, MaxFragment) \cup Statements}
    \cup {NoLicense(AfterErrors(f)) : f \in Fragments(StatementTokens, MaxFragment)}
    \cup {NoLicense(InContract(f)) : f \in Fragments(DeclarationTokens, MaxFragment)}
    \cup {NoLicense(f) : f \in Fragments(TopLevelTokens, MaxFragment)}
    \cup Licensed(Fragments(LicenseTokens, MaxFragment) \cup Units)
\* x op x ... op x with at most MaxOperators operators
BinaryOperators == {"||", "==", "+", "-", "*", "**"}
OperatorSequences ==
    {[i \in 1..2 * Len(ops) + 1 |-> IF i % 2 = 1 THEN "x" ELSE ops[i \div 2]] :
        ops \in UNION {[1..k -> BinaryOperators] : k \in 1..MaxOperators}}

ExpressionScanners ==
    {NoLicense(f) : f \in Fragments(ExpressionTokens, MaxFragment)}
    \cup {NoLicense(f) : f \in OperatorSequences}
    \cup {NoLicense(<<"[", "1", ",", ",", "x", "]">>),
          NoLicense(<<"[", ",", "x", ",", "]">>),
          NoLicense(<<"[", "[", "x", ",", "1", "]", ",", "(", ",", ")", "]">>),
          NoLicense(<<"(", "1", ",", ",", "x", ")">>),
          NoLicense(<<"[", "]", "+", "(", ")">>),
          NoLicense(<<"[", "x", "1", "]">>)}
    \cup {NoLicense(<<"(", "(", "(", "(", "x", ")", ")", ")", ")">>),
          NoLicense(<<"x", "?", "1", ":", "-", "-", "-", "2">>),
          NoLicense(<<"f", "(", "{", "a", ":", "1", ",", "b", ":", "2", "}", ")">>),
          NoLicense(<<"x", "+", "x", "=", "x", "?", "x", "*", "x", ":", "x">>),
          NoLicense(<<"x", "{", "a", ":", "1", "}">>),
          NoLicense(<<"x", "{", "a", "}">>),
          NoLicense(<<"x", "{", "1", ":", "a", "}">>),
          NoLicense(<<"x", "{", "a", ":", "1", "}", "{", "b", "}">>),
          NoLicense(<<"x", ".", "y", "{", "a", ":", "1", "}", "(", ")", "{", "}">>)}
SpecificationScanners ==
    {NoLicense(InProperty(f)) : f \in Fragments(QuantifierTokens, MaxFragment)}
    \cup {NoLicense(InQuantifier(f)) : f \in Fragments(QuantifierTokens, MaxFragment)}
    \cup {NoLicense(f) : f \in Fragments(QuantifierTokens, MaxFragment)}
    \cup {NoLicense(<<"forall", "(", "uint", "i", ")", "exists", "(", "uint", "[", "]", "a", ",",
                      "x", "b", ")", "i", "<", "1">>),
          NoLicense(<<"exists", "(", "uint", "i", ")", "forall", "(", "uint", "j", ")",
                      "exists", "(", "uint", "k", ")", "true">>),
          NoLicense(<<"property", "(", "a", ")", "(", "i", ")", "forall", "(", "uint", "j", ")",
                      "true">>),
          NoLicense(<<"x", "(", "uint", "i", ")", "true">>),
          NoLicense(<<"exists", "uint", "i", ")", "exists">>)}
CaseScanners ==
    {NoLicense(InCase(f)) : f \in Fragments(QuantifierTokens, MaxFragment)}
    \cup {NoLicense(f) : f \in Fragments({"[", "]", "case", "x", ":", ";"}, MaxFragment)}
    \cup {NoLicense(<<"[", "case", "exists", "(", "uint", "i", ")", "x", ":",
                      "property", "(", "a", ")", "(", "j", ")", "x", ";", "]">>)}

\* ====================================================== the state machine
VARIABLES parser, entry
vars == <<parser, entry>>

\* A parser has been constructed, with or without error recovery.
Init ==
    /\ parser \in {NewParser(errorRecovery) : errorRecovery \in BOOLEAN}
    /\ entry = ""

\* Parser::parse(scanner)
CallParse ==
    /\ entry = ""
    /\ \E scanner \in UnitScanners : parser' = Call("Parse", <<parser, scanner>>)
    /\ entry' = "parse"

\* Parser::parseExpression(scanner)
CallParseExpression ==
    /\ entry = ""
    /\ \E scanner \in ExpressionScanners :
            parser' = Call("ParseExpressionFromScanner", <<parser, scanner>>)
    /\ entry' = "parseExpression"

\* Parser::parseSpecificationExpression(scanner, info)
CallParseSpecificationExpression ==
    /\ entry = ""
    /\ \E scanner \in SpecificationScanners :
            parser' = Call("ParseSpecificationExpressionFromScanner", <<parser, scanner>>)
    /\ entry' = "parseSpecificationExpression"

\* Parser::parseSpecificationExpression(scanner, cases)
CallParseSpecificationCases ==
    /\ entry = ""
    /\ \E scanner \in CaseScanners : parser' = Call("ParseSpecificationCases", <<parser, scanner>>)
    /\ entry' = "parseSpecificationCases"

Next ==
    \/ CallParse
    \/ CallParseExpression
    \/ CallParseSpecificationExpression
    \/ CallParseSpecificationCases

Spec == Init /\ [][Next]_vars

\* ================================================================ claims
\* The call has ended: by a normal return, a null return after a caught fatal
\* error, a rethrown fatal error or a failed assertion.
Ended == entry # "" /\ parser.fail \notin {"diverge", "nullptr"}
Returned == entry # "" /\ parser.fail = ""
FatalCount(p) == Cardinality({i \in 1..Len(p.errs) : p.errs[i].fatal})
AbsorbedCount(p) == Cardinality({i \in 1..Len(p.recov) : p.recov[i].absorbed})
HasFatal(p) == FatalCount(p) > 0

\* C1: after a call of any entry point (full unit, expression, specification
\* expression, specification case list), on every path by which the call
\* ends, the recursion depth counter is 0.
C1_DepthZeroOnExit == Ended => parser.depth = 0

\* a fatal error raised deep in the grammar was caught by the driver
C1_Witness ==
    /\ entry = "parse" /\ parser.driver = "suppressed"
    /\ parser.peakDepth > 8 /\ parser.depth = 0

\* C2 as stated: in a full-unit parse, a fatal diagnostic means a null unit,
\* with recovery enabled or disabled; no fatal diagnostic means a unit and a
\* reporter holding only warnings and non-fatal errors.
C2_FatalMeansNull ==
    (entry = "parse" /\ parser.fail = "") =>
        /\ HasFatal(parser) => IsNull(parser.val)
        /\ ~HasFatal(parser) =>
            /\ ~IsNull(parser.val)
            /\ \A i \in 1..Len(parser.errs) :
                parser.errs[i].sev \in {"warning", "error"} /\ ~parser.errs[i].fatal

\* C2 amended: a fatal diagnostic that no recovery point absorbed (every
\* fatal diagnostic, when recovery is disabled) means a null unit; no fatal
\* diagnostic means a unit and a reporter holding only warnings and non-fatal
\* errors.
C2_UnabsorbedFatalMeansNull ==
    (entry = "parse" /\ parser.fail = "") =>
        /\ FatalCount(parser) > AbsorbedCount(parser) => IsNull(parser.val)
        /\ (HasFatal(parser) /\ ~parser.recovery) => IsNull(parser.val)
        /\ ~HasFatal(parser) =>
            /\ ~IsNull(parser.val)
            /\ \A i \in 1..Len(parser.errs) :
                parser.errs[i].sev \in {"warning", "error"} /\ ~parser.errs[i].fatal

\* one fatal error was absorbed and a later one was not
C2_Witness ==
    /\ entry = "parse" /\ parser.fail = "" /\ parser.recovery
    /\ AbsorbedCount(parser) > 0 /\ FatalCount(parser) > AbsorbedCount(parser)
    /\ IsNull(parser.val)

C4_SpansInSource ==
    (entry = "parse" /\ parser.fail = "" /\ ~IsNull(parser.val)) =>
        \A i \in 1..Len(parser.created) :
            /\ 0 <= parser.created[i].s
            /\ parser.created[i].s <= parser.created[i].e
            /\ parser.created[i].e <= SourceLength(parser)

\* a unit with an array type rebuilt from an index-accessed path, a
\* synthesized empty parameter list and a node whose end was never marked
C4_Witness ==
    /\ entry = "parse" /\ parser.fail = "" /\ ~IsNull(parser.val)
    /\ \E i \in 1..Len(parser.created) : parser.created[i].kind = "ArrayTypeName"
    /\ \E i \in 1..Len(parser.created) :
        parser.created[i].kind = "ParameterList" /\ parser.created[i].s = parser.created[i].e
    /\ \E i \in 1..Len(parser.created) : parser.created[i].kind = "SourceUnit"

\* The root nodes of the result of the call, and the ids of all the nodes of
\* a tree, one for each time a node is referenced as a child.
Roots ==
    IF parser.driver # "returned" THEN <<>>
    ELSE IF entry \in {"parse", "parseExpression"} THEN <<parser.val>>
    ELSE IF entry = "parseSpecificationExpression"
    THEN <<parser.val.expression, parser.val.info.arrayId>> \o parser.val.info.quantifierList
    ELSE <<>>

RECURSIVE IdsOf(_), IdsOfAll(_, _)
IdsOf(n) == IF IsNull(n) THEN <<>> ELSE <<n.id>> \o IdsOfAll(n.kids, 1)
IdsOfAll(nodes, i) ==
    IF i > Len(nodes) THEN <<>> ELSE IdsOf(nodes[i]) \o IdsOfAll(nodes, i + 1)

RECURSIVE NodesOf(_)
NodesOf(n) ==
    IF IsNull(n) THEN {}
    ELSE {[id |-> n.id, kind |-> n.kind, s |-> n.s, e |-> n.e]}
         \cup UNION {NodesOf(n.kids[i]) : i \in 1..Len(n.kids)}

\* C5: every node created in a parse gets a fresh id from the counter: the
\* ids increase in creation order, and the nodes of the returned AST are
\* created nodes, so their ids are pairwise distinct.
C5_FreshIds ==
    entry # "" =>
        /\ \A i \in 1..Len(parser.created) :
            /\ parser.created[i].id > 0
            /\ i > 1 => parser.created[i - 1].id < parser.created[i].id
        /\ \A r \in 1..Len(Roots) : \A n \in NodesOf(Roots[r]) :
            \E i \in 1..Len(parser.created) : parser.created[i] = n

\* a unit holding an inline-assembly node, created after other nodes and
\* before others
C5_Witness ==
    /\ entry = "parse" /\ parser.driver = "returned" /\ ~IsNull(parser.val)
    /\ \E i \in 2..Len(parser.created) - 1 : parser.created[i].kind = "InlineAssembly"
    /\ \E n \in NodesOf(parser.val) : n.kind = "InlineAssembly"

RECURSIVE HasPlaceholder(_), PlaceholderOnlyInModifierBody(_)
HasPlaceholder(n) ==
    n.kind = "PlaceholderStatement" \/ \E i \in 1..Len(n.kids) : HasPlaceholder(n.kids[i])
\* the body of a modifier definition is its third child
PlaceholderOnlyInModifierBody(n) ==
    IF n.kind = "ModifierDefinition"
    THEN ~HasPlaceholder(n.kids[1]) /\ ~HasPlaceholder(n.kids[2])
    ELSE n.kind # "PlaceholderStatement"
         /\ \A i \in 1..Len(n.kids) : PlaceholderOnlyInModifierBody(n.kids[i])

RECURSIVE HasUnderscoreIdentifier(_)
HasUnderscoreIdentifier(n) ==
    (n.kind = "Identifier" /\ n.name = "_")
    \/ \E i \in 1..Len(n.kids) : HasUnderscoreIdentifier(n.kids[i])

\* C6: in every returned AST a placeholder statement occurs only below the
\* body of a modifier definition; a statement `_` outside a modifier is not a
\* placeholder.
C6_PlaceholderOnlyInModifier ==
    \A r \in 1..Len(Roots) : PlaceholderOnlyInModifierBody(Roots[r])

\* a unit with a placeholder in a modifier and a statement `_` that is an
\* identifier in a function parsed after the modifier
C6_Witness ==
    /\ entry = "parse" /\ parser.driver = "returned"
    /\ HasPlaceholder(parser.val)
    /\ \E i \in 1..Len(parser.val.kids) : \E j \in 1..Len(parser.val.kids[i].kids) :
        /\ parser.val.kids[i].kids[j].kind = "FunctionDefinition"
        /\ HasUnderscoreIdentifier(parser.val.kids[i].kids[j])

\* C7: every node of the result of any entry point has exactly one parent: no
\* node is referenced as a child twice.
C7_SingleParent ==
    LET ids == IdsOfAll(Roots, 1)
    IN \A i, j \in 1..Len(ids) : ids[i] = ids[j] => i = j

\* The diagnostics of a resynchronization (expectTokenOrConsumeUntil).
SyncCount(p) == Cardinality({i \in 1..Len(p.errs) : p.errs[i].id \in {3796, 3347, 1957}})

\* C8: at each recovery point a fatal error is absorbed, setting the
\* in-recovery flag and resynchronizing, exactly when recovery is enabled, an
\* error is recorded and the reporter is not in the excessive-error state;
\* otherwise it is thrown again and the flag is left as it was.
C8_AbsorbOnlyWhenRecovering ==
    /\ \A i \in 1..Len(parser.recov) :
        LET event == parser.recov[i]
        IN /\ event.absorbed <=> (event.recovery /\ event.hasErrors /\ ~event.excessive)
           /\ event.absorbed => event.flagAfter
           /\ ~event.absorbed => event.flagAfter = event.flagBefore
    /\ Returned => SyncCount(parser) = AbsorbedCount(parser)

\* a parse in which a block absorbed a fatal error and a later fatal error
\* was thrown again because of the excessive-error state
C8_Witness ==
    /\ \E i \in 1..Len(parser.recov) :
        parser.recov[i].absorbed /\ parser.recov[i].point = "Block"
    /\ \E i \in 1..Len(parser.recov) :
        ~parser.recov[i].absorbed /\ parser.recov[i].excessive /\ parser.recov[i].recovery

\* C9: the recursion depth never exceeds the limit: at most two grammar
\* functions that take no guard are entered in a row, so input nested deeper
\* than the limit ends in the fatal error of the guard.
C9_DepthBounded ==
    /\ parser.peakDepth <= RecursionLimit
    /\ parser.peakRun <= 2
    /\ (\E i \in 1..Len(parser.errs) : parser.errs[i].id = 7319)
            => parser.peakDepth = RecursionLimit

\* an input nested deeper than the limit
C9_Witness ==
    /\ entry = "parseExpression" /\ parser.driver = "suppressed"
    /\ parser.peakDepth = RecursionLimit
    /\ \E i \in 1..Len(parser.errs) : parser.errs[i].id = 7319 /\ parser.errs[i].fatal

\* C10 as stated: with recovery disabled, of two diagnostics delivered one
\* after the other, the earlier does not start after the later.
C10_SourceOrder ==
    (entry # "" /\ ~parser.recovery) =>
        \A i \in 1..Len(parser.errs) - 1 : parser.errs[i].start <= parser.errs[i + 1].start

\* The diagnostics whose location is set explicitly: version mismatch, array
\* length, missing license, multiple licenses.
ExplicitlyLocated == {5333, 5464, 1878, 3716}

\* C10 amended: with recovery disabled, the diagnostics reported at the
\* current token are delivered in source order; those whose location is set
\* explicitly are not.
C10_CurrentTokenOrder ==
    (entry # "" /\ ~parser.recovery) =>
        \A i, j \in 1..Len(parser.errs) :
            (/\ i < j
             /\ parser.errs[i].id \notin ExplicitlyLocated
             /\ parser.errs[j].id \notin ExplicitlyLocated)
                => parser.errs[i].start <= parser.errs[j].start

\* three diagnostics: two at the current token, ordered, then the version
\* mismatch located before them
C10_Witness ==
    /\ entry = "parse" /\ ~parser.recovery /\ Len(parser.errs) >= 3
    /\ \E i \in 1..Len(parser.errs) - 2 :
        /\ parser.errs[i].id = 6281 /\ parser.errs[i + 1].id = 6281
        /\ parser.errs[i].start < parser.errs[i + 1].start
        /\ parser.errs[i + 2].id = 5333
        /\ parser.errs[i + 2].start < parser.errs[i].start

\* The license comments of the source that lie outside the spans of the
\* top-level nodes of the unit: a comment in the gap at offset 2k is inside a
\* node if the node starts before the gap and ends after it.
OutsideTopLevelNodes(k) ==
    \A i \in 1..Len(parser.val.kids) :
        ~(parser.val.kids[i].s <= 2 * k /\ 2 * k < parser.val.kids[i].e)

RECURSIVE LicenseOccurrences(_)
LicenseOccurrences(k) ==
    IF k < 0 THEN 0
    ELSE (IF OutsideTopLevelNodes(k) THEN parser.lic[k + 1] ELSE 0)
         + LicenseOccurrences(k - 1)

DiagnosticCount(p, id) == Cardinality({i \in 1..Len(p.errs) : p.errs[i].id = id})

\* C11: for a unit that is returned, the number of license comments outside
\* the top-level nodes decides the outcome: none gives exactly one warning
\* 1878 and an empty license, exactly one gives the license and no license
\* diagnostic, more than one (in different gaps or in the same gap) gives the
\* error 3716 and an empty license.
C11_LicenseByOccurrences ==
    (entry = "parse" /\ parser.driver = "returned" /\ ~IsNull(parser.val)) =>
        LET n == LicenseOccurrences(Len(parser.toks))
        IN /\ n = 0 => /\ DiagnosticCount(parser, 1878) = 1
                       /\ DiagnosticCount(parser, 3716) = 0
                       /\ parser.val.name = ""
           /\ n = 1 => /\ DiagnosticCount(parser, 1878) = 0
                       /\ DiagnosticCount(parser, 3716) = 0
                       /\ parser.val.name = "license"
           /\ n > 1 => /\ DiagnosticCount(parser, 1878) = 0
                       /\ DiagnosticCount(parser, 3716) = 1
                       /\ parser.val.name = ""

\* ------------------------------------------------------------------- C12
MightBeTypeName(k) == k \in ElementaryTypeNames \/ k = "Identifier"
StartsDeclaration(k) == k = "Identifier" \/ k \in LocationSpecifiers

\* C12: whenever the look-ahead resolver returns for a statement whose first
\* token is an identifier or an elementary type followed by `[` or `.`, it
\* has consumed the index-accessed path, and its answer is Variable
\* Declaration exactly when the token following the path is an identifier or
\* a location specifier (storage, memory, calldata) and Expression in every
\* other case; for a statement starting with `mapping` or `function` the
\* answer is Variable Declaration and no token has been consumed.
C12_LookAheadClassification ==
    \A i \in 1..Len(parser.looks) :
        LET look == parser.looks[i]
        IN /\ (MightBeTypeName(look.first) /\ look.next \in {"[", "."}) =>
                /\ look.to > look.from
                /\ look.type = IF StartsDeclaration(look.following)
                               THEN "VariableDeclaration" ELSE "Expression"
           /\ look.first \in {"mapping", "function"} =>
                /\ look.to = look.from
                /\ look.type = "VariableDeclaration"

\* one parse in which a path followed by a location specifier was classified
\* as a declaration, and parses with the three other cases
C12_Witness ==
    /\ entry = "parse"
    /\ \E i \in 1..Len(parser.looks) :
            /\ parser.looks[i].next = "[" /\ parser.looks[i].following \in LocationSpecifiers
            /\ parser.looks[i].type = "VariableDeclaration"
            /\ parser.looks[i].to > parser.looks[i].from + 2

C12_WitnessExpression ==
    \E i \in 1..Len(parser.looks) :
        /\ parser.looks[i].next = "." /\ parser.looks[i].type = "Expression"
        /\ parser.looks[i].to > parser.looks[i].from

C12_WitnessKeyword ==
    \E i \in 1..Len(parser.looks) :
        /\ parser.looks[i].first = "function" /\ parser.looks[i].type = "VariableDeclaration"

\* ------------------------------------------------------------------- C13
\* the type n wrappings inside a type
RECURSIVE Unwrapped(_, _)
Unwrapped(type, n) ==
    IF n = 0 \/ type.kids = <<>> THEN type ELSE Unwrapped(type.kids[1], n - 1)

\* the nodes of a tree
RECURSIVE SubtreesOf(_)
SubtreesOf(n) ==
    IF IsNull(n) THEN {}
    ELSE {n} \cup UNION {SubtreesOf(n.kids[i]) : i \in 1..Len(n.kids)}

SliceSegments(iap) == {k \in 1..Len(iap.indices) : iap.indices[k].hasEnd}

\* C13: a path with n index segments that is turned into the type of a
\* declaration gives n nested array types around the base type; the base is
\* the user-defined type of the full dotted path or the elementary type; the
\* k-th segment in source order is the k-th wrapping from the inside and its
\* index expression (absent for `[]`) is the length.  Each slice segment
\* gives one non-fatal diagnostic 5464 and its array type is built all the
\* same.
C13_ArrayTypeFromPath ==
    /\ \A i \in 1..Len(parser.typed) :
        LET iap == parser.typed[i].iap
            type == parser.typed[i].type
            n == Len(iap.indices)
            base == Unwrapped(type, n)
        IN /\ \A k \in 1..n :
                LET layer == Unwrapped(type, n - k)
                IN /\ layer.kind = "ArrayTypeName"
                   /\ Len(layer.kids) = 2
                   /\ layer.kids[2] = iap.indices[k].start
           /\ IF iap.path[1].kind = "ElementaryTypeNameExpression"
              THEN base.kind = "ElementaryTypeName" /\ base.name = iap.path[1].kids[1].name
              ELSE /\ base.kind = "UserDefinedTypeName"
                   /\ base.attr = [j \in 1..Len(iap.path) |-> iap.path[j].name]
    /\ LET slices == {<<i, k>> \in (1..Len(parser.typed)) \X (1..Len(parser.toks)) :
                          k \in SliceSegments(parser.typed[i].iap)}
           reports == {j \in 1..Len(parser.errs) : parser.errs[j].id = 5464}
       IN /\ Cardinality(reports) = Cardinality(slices)
          /\ \A j \in reports : ~parser.errs[j].fatal

\* `x.y.z[1][2] a;` is parsed into a declaration of type
\* array(array(userDefined(x.y.z), 1), 2)
C13_Witness ==
    /\ entry = "parse" /\ parser.driver = "returned"
    /\ \E i \in 1..Len(parser.typed) :
        LET type == parser.typed[i].type
        IN /\ type.kind = "ArrayTypeName" /\ type.kids[2].name = "2"
           /\ type.kids[1].kind = "ArrayTypeName" /\ type.kids[1].kids[2].name = "1"
           /\ type.kids[1].kids[1].kind = "UserDefinedTypeName"
           /\ type.kids[1].kids[1].attr = <<"x", "y", "z">>
           /\ \E d \in SubtreesOf(parser.val) :
                d.kind = "VariableDeclaration" /\ d.name = "a" /\ d.kids[1] = type

\* `x[1:2] y;`: the slice is reported and the declaration is made
C13_WitnessSlice ==
    /\ entry = "parse" /\ parser.driver = "returned"
    /\ \E i \in 1..Len(parser.typed) :
        /\ SliceSegments(parser.typed[i].iap) # {}
        /\ \E d \in SubtreesOf(parser.val) :
            d.kind = "VariableDeclaration" /\ d.kids[1] = parser.typed[i].type
    /\ \E j \in 1..Len(parser.errs) : parser.errs[j].id = 5464

\* ------------------------------------------------------------------- C14
\* the token at a source offset, and the brackets open after tokens i..j
TokenAt(offset) == (offset + 1) \div 2
RECURSIVE Nesting(_, _)
Nesting(i, j) ==
    IF j < i THEN 0
    ELSE Nesting(i, j - 1)
         + (IF parser.kinds[j] \in {"(", "[", "{"} THEN 1
            ELSE IF parser.kinds[j] \in {")", "]", "}"} THEN -1 ELSE 0)

\* the j-th smallest element of a set of numbers
Nth(S, j) == CHOOSE x \in S : Cardinality({y \in S : y < x}) = j - 1

\* the statements made by the declaration branch for a leading `(`
TupleDeclarations ==
    IF entry # "parse" \/ parser.driver # "returned" THEN {}
    ELSE {n \in SubtreesOf(parser.val) :
            n.kind = "VariableDeclarationStatement" /\ parser.kinds[TokenAt(n.s)] = "("}

\* no diagnostic is located in the span of the node
ParsedCleanly(n) == \A i \in 1..Len(parser.errs) :
    ~(n.s <= parser.errs[i].start /\ parser.errs[i].start <= n.e)

C14_WitnessEnds ==
    \E n \in TupleDeclarations :
        /\ ParsedCleanly(n) /\ Len(n.kids) = 4
        /\ IsNull(n.kids[2]) /\ n.kids[3].name = "y" /\ IsNull(n.kids[4])

\* `(uint x uint y) = 1;`: the missing comma is reported and the list holds
\* two entries
C14_WitnessReported ==
    \E n \in TupleDeclarations : ~ParsedCleanly(n) /\ Len(n.kids) = 3

\* `(x[f(1, 2)] a, uint b) = x;`: the commas of the call are not positions
C14_WitnessNested ==
    \E n \in TupleDeclarations :
        /\ ParsedCleanly(n) /\ Len(n.kids) = 3
        /\ \E c \in SubtreesOf(n.kids[2]) : c.kind = "FunctionCall"

\* ------------------------------------------------------------------- C15
\* the source is operand (op operand)* with operators of precedence >= 4
IsOperatorSequence ==
    /\ Len(parser.kinds) % 2 = 1
    /\ \A i \in 1..Len(parser.kinds) :
        IF i % 2 = 1 THEN parser.kinds[i] \in {"Identifier", "Number"}
        ELSE Precedence(parser.kinds[i]) >= 4

\* The tree of the reference grammar for the tokens lo..hi: the root is the
\* last of the operators of the lowest precedence.
RECURSIVE Reference(_, _)
Reference(lo, hi) ==
    IF lo = hi THEN [op |-> "", s |-> 2 * lo - 1, e |-> 2 * lo, kids |-> <<>>]
    ELSE LET ops == {i \in lo..hi : i % 2 = 0}
             lowest == CHOOSE m \in 4..14 :
                          /\ \E i \in ops : Precedence(parser.kinds[i]) = m
                          /\ \A i \in ops : Precedence(parser.kinds[i]) >= m
             root == CHOOSE i \in ops :
                        /\ Precedence(parser.kinds[i]) = lowest
                        /\ \A j \in ops : Precedence(parser.kinds[j]) = lowest => j <= i
         IN [op |-> parser.kinds[root], s |-> 2 * lo - 1, e |-> 2 * hi,
             kids |-> <<Reference(lo, root - 1), Reference(root + 1, hi)>>]

\* the binary operations of an expression, the operands as leaves
RECURSIVE OperationTree(_)
OperationTree(n) ==
    IF n.kind = "BinaryOperation"
    THEN [op |-> n.name, s |-> n.s, e |-> n.e,
          kids |-> <<OperationTree(n.kids[1]), OperationTree(n.kids[2])>>]
    ELSE [op |-> "", s |-> n.s, e |-> n.e, kids |-> <<>>]

\* C15: for a source operand (op operand)* in which every operator has a
\* binary precedence of at least 4, parseBinaryExpression(4) returns the tree
\* of the reference precedence grammar: an operator of higher precedence
\* binds tighter than an adjacent one of lower precedence, and operators of
\* equal precedence associate to the left, exponentiation included.
C15_PrecedenceTree ==
    (entry = "parseExpression" /\ IsOperatorSequence) =>
        /\ parser.driver = "returned" /\ parser.errs = <<>>
        /\ OperationTree(parser.val) = Reference(1, Len(parser.kinds))

\* x + x * x ** x: each operator binds tighter than the one before it
C15_Witness ==
    /\ entry = "parseExpression" /\ IsOperatorSequence
    /\ parser.toks = <<"x", "+", "x", "*", "x", "**", "x">>
    /\ parser.val.name = "+" /\ parser.val.kids[2].name = "*"
    /\ parser.val.kids[2].kids[2].name = "**"

\* x ** x ** x is (x ** x) ** x
C15_WitnessExponentiation ==
    /\ entry = "parseExpression" /\ IsOperatorSequence
    /\ parser.toks = <<"x", "**", "x", "**", "x">>
    /\ parser.val.kids[1].kind = "BinaryOperation"
    /\ parser.val.kids[2].kind = "Identifier"

\* ------------------------------------------------------------------- C16
IsInlineArray(t) == t.attr = <<"array">>
\* no token mismatch is reported in the span of the node
NoMismatchIn(n) == \A i \in 1..Len(parser.errs) :
    ~(parser.errs[i].id = 2314 /\ n.s <= parser.errs[i].start /\ parser.errs[i].start <= n.e)

\* C16: in every tuple expression created (by the primary-expression parser
\* for `(`..`)` and `[`..`]`, by the simple-statement parser for a leading
\* `(`), a component is null only if the tuple is not an inline array.  An
\* element omitted between `[` and `]` is reported as 4799, which is not
\* fatal, and makes no component: an inline array parsed without a token
\* mismatch has one component for each position that is not empty.
C16_NoNullInInlineArray ==
    /\ \A i \in 1..Len(parser.tuples) :
        IsInlineArray(parser.tuples[i]) =>
            \A j \in 1..Len(parser.tuples[i].kids) : ~IsNull(parser.tuples[i].kids[j])
    /\ \A i \in 1..Len(parser.errs) : parser.errs[i].id = 4799 => ~parser.errs[i].fatal
    /\ \A i \in 1..Len(parser.tuples) :
        LET t == parser.tuples[i]
            open == TokenAt(t.s)
            close == t.e \div 2
            commas == {j \in open + 1..close - 1 :
                          parser.kinds[j] = "," /\ Nesting(open + 1, j - 1) = 0}
            bounds == {open, close} \cup commas
            omitted == {j \in 1..Cardinality(commas) + 1 :
                           Nth(bounds, j) + 1 = Nth(bounds, j + 1)}
        IN (IsInlineArray(t) /\ NoMismatchIn(t) /\ close > open + 1) =>
              /\ parser.kinds[close] = "]"
              /\ \A j \in omitted :
                    \E k \in 1..Len(parser.errs) :
                        /\ parser.errs[k].id = 4799
                        /\ parser.errs[k].start = 2 * (Nth(bounds, j) + 1) - 1
              /\ Len(t.kids) = Cardinality(commas) + 1 - Cardinality(omitted)

\* [1, , x]: the hole is reported and the array has two components
C16_Witness ==
    /\ entry = "parseExpression" /\ parser.driver = "returned"
    /\ IsInlineArray(parser.val) /\ Len(parser.val.kids) = 2
    /\ parser.toks = <<"[", "1", ",", ",", "x", "]">>
    /\ \E k \in 1..Len(parser.errs) : parser.errs[k].id = 4799 /\ parser.errs[k].start = 7

\* (1, , x): a tuple with a null component
C16_WitnessTuple ==
    /\ entry = "parseExpression" /\ parser.driver = "returned"
    /\ parser.val.kind = "TupleExpression" /\ ~IsInlineArray(parser.val)
    /\ Len(parser.val.kids) = 3 /\ IsNull(parser.val.kids[2])

\* a tuple made by the simple-statement parser, with null components
C16_WitnessStatement ==
    /\ entry = "parse"
    /\ \E i \in 1..Len(parser.tuples) :
        /\ ~IsInlineArray(parser.tuples[i])
        /\ IsNull(parser.tuples[i].kids[1])
        /\ parser.tuples[i].kids[2].kind = "MemberAccess"

\* ------------------------------------------------------------------- C17
KindKeywords == {"constructor", "fallback", "receive"}
\* the function definitions of the returned unit
FunctionDefinitions ==
    IF entry # "parse" \/ parser.driver # "returned" THEN {}
    ELSE {n \in SubtreesOf(parser.val) : n.kind = "FunctionDefinition"}
FunctionKind(n) == n.attr[1]
\* a diagnostic of the given id and severity is located at token i
ReportedAt(id, sev, i) ==
    \E k \in 1..Len(parser.errs) :
        /\ parser.errs[k].id = id /\ parser.errs[k].sev = sev
        /\ parser.errs[k].start = 2 * i - 1 /\ ~parser.errs[k].fatal

\* C17 as stated: a function definition has kind Function if and only if it
\* is introduced by `function` followed by an identifier; no node of kind
\* Function is named by a reserved kind keyword, and no node of another kind
\* has a name.
C17_FunctionIffIdentifierName ==
    \A n \in FunctionDefinitions :
        /\ FunctionKind(n) = "function" <=>
              (parser.kinds[TokenAt(n.s)] = "function"
               /\ KindAt(parser, TokenAt(n.s) + 1) = "Identifier")
        /\ FunctionKind(n) = "function" => n.name \notin KindKeywords
        /\ FunctionKind(n) # "function" => n.name = ""

\* C17 amended: the kind of a function definition is the token that
\* introduces it: Function for `function`, else Constructor, Fallback or
\* Receive, and then the name is empty.  After `function`, an identifier is
\* the name; a kind keyword is the name too, the node keeps the kind
\* Function, and the keyword is reported: 3323 (error) for constructor, 3445
\* (warning) for fallback and receive.
C17_KindIsIntroducingToken ==
    \A n \in FunctionDefinitions :
        LET first == parser.kinds[TokenAt(n.s)]
            second == KindAt(parser, TokenAt(n.s) + 1)
        IN /\ FunctionKind(n) = first
           /\ first \in KindKeywords \cup {"function"}
           /\ first \in KindKeywords => n.name = ""
           /\ (first = "function" /\ second = "Identifier") =>
                 n.name = parser.toks[TokenAt(n.s) + 1]
           /\ (first = "function" /\ second \in KindKeywords) =>
                 /\ n.name = second
                 /\ IF second = "constructor"
                    THEN ReportedAt(3323, "error", TokenAt(n.s) + 1)
                    ELSE ReportedAt(3445, "warning", TokenAt(n.s) + 1)
           /\ n.name \in KindKeywords => (first = "function" /\ second = n.name)

\* a unit with a fallback and a receive function and a function named receive
C17_Witness ==
    /\ \E n \in FunctionDefinitions : FunctionKind(n) = "fallback" /\ n.name = ""
    /\ \E n \in FunctionDefinitions : FunctionKind(n) = "receive" /\ n.name = ""
    /\ \E n \in FunctionDefinitions : FunctionKind(n) = "function" /\ n.name = "receive"

\* constructor (...) in a contract, and function f
C17_WitnessConstructor ==
    /\ \E n \in FunctionDefinitions : FunctionKind(n) = "constructor" /\ n.name = ""

C17_WitnessNamed ==
    /\ \E n \in FunctionDefinitions : FunctionKind(n) = "function" /\ n.name = "f"

\* ------------------------------------------------------------------- C18
\* the kind of modifier a token is, "" for a token that is no modifier
ModifierKind(k) ==
    IF k \in VisibilitySpecifiers THEN "visibility"
    ELSE IF k = "override" THEN "override"
    ELSE IF k = "indexed" THEN "indexed"
    ELSE IF k \in {"constant", "immutable"} THEN "mutability"
    ELSE IF k \in LocationSpecifiers THEN "location"
    ELSE ""

\* the variable declarations of the returned unit
VariableDeclarations ==
    IF entry # "parse" \/ parser.driver # "returned" THEN {}
    ELSE {n \in SubtreesOf(parser.val) : n.kind = "VariableDeclaration"}

\* the modifiers of a declaration: the tokens of its span that follow the
\* type, up to the first that is no modifier
ModifierRun(n) ==
    LET from == n.kids[1].e \div 2 + 1
        to == n.e \div 2
    IN {j \in from..to : \A i \in from..j : ModifierKind(parser.kinds[i]) # ""}

\* C18: in a variable declaration each kind of modifier (visibility,
\* override, indexed, constant/immutable, data location) is accepted at most
\* once: a modifier of a kind already given is reported by a diagnostic at
\* the repeated token, and the declaration is parsed to its end; constant and
\* immutable are one kind.
C18_RepeatIsReported ==
    \A n \in VariableDeclarations :
        \A j \in ModifierRun(n) :
            (\E i \in ModifierRun(n) :
                i < j /\ ModifierKind(parser.kinds[i]) = ModifierKind(parser.kinds[j]))
            => \E k \in 1..Len(parser.errs) : parser.errs[k].start = 2 * j - 1

\* ------------------------------------------------------------------- C19
\* the function headers of the returned unit: those of function definitions
\* and those of function types, which are parsed in state-variable mode
Headers ==
    IF entry # "parse" \/ parser.driver # "returned" THEN {}
    ELSE {n \in SubtreesOf(parser.val) : n.kind \in {"FunctionDefinition", "FunctionTypeName"}}
StateVariableMode(n) == n.kind = "FunctionTypeName"

\* the kind of specifier a token is in a header, "" for any other token
HeaderKind(k, stateVariableMode) ==
    IF k \in VisibilitySpecifiers THEN "visibility"
    ELSE IF k \in StateMutabilitySpecifiers THEN "mutability"
    ELSE IF ~stateVariableMode /\ k = "override" THEN "override"
    ELSE IF ~stateVariableMode /\ k = "virtual" THEN "virtual"
    ELSE ""
RepeatId(kind) ==
    CASE kind = "visibility" -> 9439
      [] kind = "mutability" -> 9680
      [] kind = "override" -> 1827
      [] kind = "virtual" -> 6879

\* the specifiers that follow the parameter list (an override with a list of
\* its own ends the run)
HeaderStart(n) == n.kids[1].e \div 2 + 1
SpecifierRun(n) ==
    {j \in HeaderStart(n)..Len(parser.toks) :
        \A i \in HeaderStart(n)..j :
            /\ HeaderKind(parser.kinds[i], StateVariableMode(n)) # ""
            /\ ~(parser.kinds[i] = "override" /\ KindAt(parser, i + 1) = "(")}

\* in state-variable mode, a visibility that follows a first visibility of
\* external or internal
VariableVisibility(n) ==
    {j \in SpecifierRun(n) :
        /\ StateVariableMode(n) /\ parser.kinds[j] \in VisibilitySpecifiers
        /\ \E i \in SpecifierRun(n) :
            /\ i < j /\ parser.kinds[i] \in {"external", "internal"}
            /\ \A h \in SpecifierRun(n) : h < i => parser.kinds[h] \notin VisibilitySpecifiers}
HeaderRun(n) == {j \in SpecifierRun(n) : \A v \in VariableVisibility(n) : j < v}

\* every repeat among the tokens is reported and the returns list is taken
\* at the first token after them
RepeatsReported(n, run) ==
    LET after == HeaderStart(n) + Cardinality(run)
        returnParameters == n.kids[2]
    IN /\ \A j \in run :
            (\E i \in run : i < j /\ HeaderKind(parser.kinds[i], StateVariableMode(n))
                                      = HeaderKind(parser.kinds[j], StateVariableMode(n)))
            => ReportedAt(RepeatId(HeaderKind(parser.kinds[j], StateVariableMode(n))),
                          "error", j)
       /\ KindAt(parser, after) = "returns" =>
            /\ returnParameters.kids # <<>>
            /\ returnParameters.s = 2 * (after + 1) - 1
       /\ (KindAt(parser, after) \notin {"returns", "override"}
           /\ (StateVariableMode(n) \/ KindAt(parser, after) # "Identifier")) =>
            returnParameters.kids = <<>>

\* C19: in a function header a repeated visibility, state-mutability,
\* override or virtual specifier is reported (9439, 9680, 1827, 6879, not
\* fatal) and consumed; the loop goes on and stops at the first token that
\* is no element of the header, where a returns list is still parsed.  In
\* the header of a function type the header ends in front of a visibility
\* that follows a visibility of external or internal: it is the visibility
\* of the variable.
C19_RepeatReported == \A n \in Headers : RepeatsReported(n, HeaderRun(n))

\* a header with three repeats, all reported, and a returns list after them
C19_Witness ==
    \E n \in Headers :
        /\ ~StateVariableMode(n) /\ Cardinality(HeaderRun(n)) = 6
        /\ n.kids[2].kids # <<>>
        /\ ReportedAt(9439, "error", HeaderStart(n) + 3)

\* function () external public x: the header ends in front of `public`
C19_WitnessFunctionType ==
    \E n \in Headers : StateVariableMode(n) /\ VariableVisibility(n) # {}

\* function () public external pure y: the repeat is reported
C19_WitnessFunctionTypeRepeat ==
    \E n \in Headers :
        /\ StateVariableMode(n) /\ Cardinality(HeaderRun(n)) = 3
        /\ ReportedAt(9439, "error", HeaderStart(n) + 1)

\* ------------------------------------------------------------------- C20
\* The source starts with a pragma whose first literal is solidity: the
\* token that ends it (`;` or the end of the source), the tokens it records
\* and the literals recorded for them.
PragmaEnd ==
    Nth({k \in 3..Len(parser.toks) + 1 : KindAt(parser, k) \in {";", "EOS"}}, 1)
PragmaRecorded == {i \in 2..PragmaEnd - 1 : parser.kinds[i] # "ILLEGAL"}
PragmaLiterals ==
    [j \in 1..Cardinality(PragmaRecorded) |->
        LET i == Nth(PragmaRecorded, j)
        IN IF parser.kinds[i] \notin {"Identifier", "Number", "StringLiteral"}
           THEN parser.kinds[i]
           ELSE IF parser.toks[i] = "\"\"" THEN "" ELSE parser.toks[i]]
\* the version expression is not empty and the compiler's version, which
\* only the literal 0 stands for, does not satisfy it
VersionMismatch ==
    /\ Len(parser.toks) >= 2
    /\ parser.kinds[1] = "pragma" /\ parser.toks[2] = "solidity"
    /\ Len(PragmaLiterals) >= 2
    /\ \E j \in 2..Len(PragmaLiterals) : PragmaLiterals[j] # "0"

\* C20: for a pragma whose first literal is solidity and whose version
\* expression does not match the compiler version: with error recovery
\* disabled the fatal diagnostic 5333 is emitted, located at the pragma, and
\* the parse of the unit returns null; with error recovery enabled no 5333
\* is emitted and the PragmaDirective node is created, spanning the pragma
\* and holding all the recorded literals.
C20_VersionMismatch ==
    (entry = "parse" /\ VersionMismatch) =>
        IF ~parser.recovery
        THEN /\ parser.driver = "suppressed" /\ IsNull(parser.val)
             /\ \E k \in 1..Len(parser.errs) :
                    /\ parser.errs[k].id = 5333 /\ parser.errs[k].fatal
                    /\ parser.errs[k].start = 1
             /\ \A i \in 1..Len(parser.created) : parser.created[i].kind # "PragmaDirective"
        ELSE /\ DiagnosticCount(parser, 5333) = 0
             /\ \E i \in 1..Len(parser.created) :
                    /\ parser.created[i].kind = "PragmaDirective"
                    /\ parser.created[i].s = 1
                    /\ parser.created[i].e = IF KindAt(parser, PragmaEnd) = ";"
                                             THEN 2 * PragmaEnd ELSE 2 * PragmaEnd - 1
             /\ parser.driver = "returned" =>
                    /\ parser.val.kids[1].kind = "PragmaDirective"
                    /\ parser.val.kids[1].attr = PragmaLiterals

\* with recovery, `pragma solidity 1; enum E {a}` is parsed to a unit of a
\* pragma and an enum, without a diagnostic
C20_Witness ==
    /\ entry = "parse" /\ VersionMismatch /\ parser.recovery
    /\ parser.driver = "returned" /\ Len(parser.val.kids) = 2
    /\ parser.val.kids[1].attr = <<"solidity", "1">>
    /\ parser.errs = <<>>

\* without recovery the same source gives 5333 and no unit
C20_WitnessFatal ==
    /\ entry = "parse" /\ VersionMismatch /\ ~parser.recovery
    /\ Len(parser.toks) = 9 /\ IsNull(parser.val)
    /\ DiagnosticCount(parser, 5333) = 1

\* ---------------------------------------------------------------- C21
\* the declarations that are no modifier definitions and hold none
NonModifierDeclarations ==
    {"FunctionDefinition", "StructDefinition", "EnumDefinition", "EventDefinition",
     "UsingDirective", "PragmaDirective", "ImportDirective"}

\* the nodes created while a modifier definition was being parsed
CreatedInsideModifier == {i \in 1..Len(parser.created) : parser.flagged[i]}

\* C21: the inside-modifier flag is false at every exit of every entry point,
\* whether a modifier definition in the input returned or a fatal error
\* unwound through it, and it is false while a declaration that is no
\* modifier definition is parsed: each node created within the span of such a
\* declaration, and each contract definition and source unit, is created with
\* the flag false.
C21_InsideModifierCleared ==
    Ended =>
        /\ ~parser.insideModifier
        /\ \A i, j \in 1..Len(parser.created) :
            /\ parser.created[i].kind \in NonModifierDeclarations
            /\ parser.created[i].s <= parser.created[j].s
            /\ parser.created[j].e <= parser.created[i].e
            => ~parser.flagged[j]
        /\ \A j \in 1..Len(parser.created) :
            parser.created[j].kind \in {"ContractDefinition", "SourceUnit"} => ~parser.flagged[j]

\* a unit whose modifier definition returned, its node created with the flag
\* still set, followed by a function definition
C21_Witness ==
    /\ entry = "parse" /\ parser.driver = "returned"
    /\ \E i \in CreatedInsideModifier : \E j \in 1..Len(parser.created) :
        /\ parser.created[i].kind = "ModifierDefinition"
        /\ i < j /\ parser.created[j].kind = "FunctionDefinition"

\* a fatal error unwinds through a modifier definition, which creates no
\* node, and leaves the parse
C21_WitnessUnwound ==
    /\ entry = "parse" /\ parser.driver = "suppressed"
    /\ CreatedInsideModifier # {}
    /\ \A i \in 1..Len(parser.created) : parser.created[i].kind # "ModifierDefinition"

\* a fatal error unwinds through a modifier definition and is absorbed by the
\* contract, and a function definition is parsed afterwards
C21_WitnessRecovered ==
    /\ entry = "parse" /\ parser.driver = "returned" /\ parser.recovery
    /\ CreatedInsideModifier # {}
    /\ \A i \in 1..Len(parser.created) : parser.created[i].kind # "ModifierDefinition"
    /\ \E i \in 1..Len(parser.created) : parser.created[i].kind = "FunctionDefinition"

\* ---------------------------------------------------------------- C22
\* the token that follows the last token of a node
TokenAfter(n) == TokenAt(n.e) + 1

\* the function call options of the result
CallOptions ==
    UNION {{n \in SubtreesOf(Roots[r]) : n.kind = "FunctionCallOptions"} : r \in 1..Len(Roots)}

\* the try statements of the result that have no returns list
PlainTryStatements ==
    UNION {{n \in SubtreesOf(Roots[r]) : n.kind = "TryStatement" /\ IsNull(n.kids[2].kids[1])} :
           r \in 1..Len(Roots)}

\* a `{` at token i that is followed by <identifier> ":"
OpensOptions(i) ==
    /\ KindAt(parser, i) = "{"
    /\ KindAt(parser, i + 1) = "Identifier"
    /\ KindAt(parser, i + 2) = ":"

\* C22: the suffix loop takes a `{` as function call options only if the
\* next two tokens are an identifier and `:`.  Otherwise it returns the
\* expression built so far with the `{` as the current token: an expression
\* parsed from a scanner then ends before the `{`, which is the current token
\* at the end and is reported as the unexpected rest, and the success block
\* of a try statement starts at the `{` that follows the call.
C22_BraceAfterExpression ==
    /\ \A n \in CallOptions : OpensOptions(TokenAfter(n.kids[1]))
    /\ (entry = "parseExpression" /\ parser.driver = "returned" /\ ~IsNull(parser.val)
        /\ KindAt(parser, TokenAfter(parser.val)) = "{")
       => /\ ~OpensOptions(TokenAfter(parser.val))
          /\ parser.pos = TokenAfter(parser.val)
          /\ ReportedAt(4272, "error", TokenAfter(parser.val))
    /\ \A n \in PlainTryStatements :
        KindAt(parser, TokenAfter(n.kids[1])) = "{"
        => /\ ~OpensOptions(TokenAfter(n.kids[1]))
           /\ n.kids[2].kids[2].kind = "Block"
           /\ n.kids[2].kids[2].s = 2 * TokenAfter(n.kids[1]) - 1

\* try x { a : 1 } ( ) { x ; } catch { }: the first `{` opens the options of
\* the call, the second the success block
C22_Witness ==
    /\ entry = "parse" /\ parser.driver = "returned"
    /\ \A k \in 1..Len(parser.errs) : parser.errs[k].sev # "error"
    /\ \E n \in PlainTryStatements :
        /\ KindAt(parser, TokenAfter(n.kids[1])) = "{"
        /\ \E m \in SubtreesOf(n.kids[1]) : m.kind = "FunctionCallOptions"

\* x { a }: the expression ends before the `{`, which stays the current token
C22_WitnessLeft ==
    /\ entry = "parseExpression" /\ parser.driver = "returned" /\ ~IsNull(parser.val)
    /\ KindAt(parser, TokenAfter(parser.val)) = "{"
    /\ KindAt(parser, TokenAfter(parser.val) + 1) = "Identifier"
    /\ parser.pos = TokenAfter(parser.val)

\* x { a : 1 } { b }: options, then a `{` that is left alone
C22_WitnessBoth ==
    /\ entry = "parseExpression" /\ parser.driver = "returned" /\ ~IsNull(parser.val)
    /\ parser.val.kind = "FunctionCallOptions"
    /\ KindAt(parser, TokenAfter(parser.val)) = "{"

\* ---------------------------------------------------------------- C23
\* the function types of the returned unit
FunctionTypes == {n \in Headers : StateVariableMode(n)}

\* the first token of a set of tokens that is of one of the kinds, 0 if none
FirstOfKind(run, kinds) ==
    LET S == {j \in run : parser.kinds[j] \in kinds}
    IN IF S = {} THEN 0 ELSE Nth(S, 1)

\* the visibility of external or internal that is the first visibility of a
\* function type, 0 if there is none
BreakingVisibility(n) ==
    LET v == FirstOfKind(SpecifierRun(n), VisibilitySpecifiers)
    IN IF v # 0 /\ parser.kinds[v] \in {"external", "internal"} THEN v ELSE 0

\* the value a specifier of a header has, given the token that sets it
SpecifierValue(j, default) == IF j = 0 THEN default ELSE parser.kinds[j]

\* C23 as stated: once the visibility of a function type is external or
\* internal the type takes no further token of the header, so its state
\* mutability is the one given before that visibility.
C23_NothingAfterVisibility ==
    \A n \in FunctionTypes :
        BreakingVisibility(n) # 0 =>
            n.attr[2] = SpecifierValue(
                FirstOfKind({j \in SpecifierRun(n) : j < BreakingVisibility(n)},
                            StateMutabilitySpecifiers), "nonpayable")

\* C23: the header loop of a function type is left in front of a visibility
\* specifier that follows a visibility of external or internal: that
\* specifier is not reported as a repeat and, in a state variable, is the
\* visibility of the variable if it is one a variable can have.  A state
\* mutability that follows the visibility is still taken by the type: the
\* visibility and the state mutability of the type are the first of each
\* kind among the specifiers in front of the variable's visibility.
C23_BreakAtSecondVisibility ==
    \A n \in FunctionTypes :
        /\ n.attr[1] = SpecifierValue(FirstOfKind(HeaderRun(n), VisibilitySpecifiers), "default")
        /\ n.attr[2] = SpecifierValue(FirstOfKind(HeaderRun(n), StateMutabilitySpecifiers),
                                      "nonpayable")
        /\ VariableVisibility(n) # {} =>
            LET v == Nth(VariableVisibility(n), 1)
            IN /\ BreakingVisibility(n) # 0 /\ BreakingVisibility(n) < v
               /\ ~ReportedAt(9439, "error", v)
               /\ \A d \in VariableDeclarations :
                    (d.kids[1] = n /\ d.attr[2] = "true"
                     /\ parser.kinds[v] \in {"public", "private", "internal"})
                    => d.attr[1] = parser.kinds[v]

\* function () external pure x: the state mutability after the visibility is
\* part of the type
C23_Witness ==
    \E n \in FunctionTypes :
        /\ BreakingVisibility(n) # 0
        /\ \E j \in HeaderRun(n) :
            j > BreakingVisibility(n) /\ parser.kinds[j] \in StateMutabilitySpecifiers
        /\ n.attr = <<"external", "pure">>

\* function () view internal pure private y: the type is internal view, the
\* repeated state mutability is reported and the variable is private
C23_WitnessVariable ==
    \E n \in FunctionTypes : \E d \in VariableDeclarations :
        /\ d.kids[1] = n /\ d.attr[2] = "true" /\ d.attr[1] = "private"
        /\ n.attr = <<"internal", "view">>
        /\ VariableVisibility(n) # {}
        /\ ReportedAt(9680, "error", Nth(VariableVisibility(n), 1) - 1)

\* ---------------------------------------------------------------- C24
\* the quantifier information of the specification expressions returned:
\* that of the expression, or those of the conditions of the cases
SpecificationInfos ==
    IF parser.driver # "returned" THEN {}
    ELSE IF entry = "parseSpecificationExpression" THEN {parser.val.info}
    ELSE IF entry = "parseSpecificationCases"
    THEN {parser.val[i].preconditionInfo : i \in 1..Len(parser.val)}
         \cup {parser.val[i].postconditionInfo : i \in 1..Len(parser.val)}
    ELSE {}

\* token i is a quantifier keyword
IsQuantifier(i) ==
    KindAt(parser, i) = "Identifier" /\ parser.toks[i] \in {"forall", "exists"}

\* the token in front of the k-th parameter list of an info
KeywordOf(info, k) == TokenAt(info.quantifierList[k].s) - 1

\* the two lists of an info agree with the groups of the input: one flagged
\* group with the array identifier for the property form, else one group for
\* each quantifier keyword, in the order of the input and flagged by it
GroupsAsInInput(info) ==
    /\ Len(info.isForall) = Len(info.quantifierList)
    /\ ~IsNull(info.arrayId) =>
        /\ info.isForall = <<TRUE>>
        /\ info.arrayId.kind = "Identifier"
        /\ info.arrayId.e <= info.quantifierList[1].s
    /\ IsNull(info.arrayId) =>
        /\ \A k \in 1..Len(info.quantifierList) :
            /\ KeywordOf(info, k) >= 1 /\ IsQuantifier(KeywordOf(info, k))
            /\ info.isForall[k] = (parser.toks[KeywordOf(info, k)] = "forall")
            /\ k > 1 => KeywordOf(info, k) = TokenAfter(info.quantifierList[k - 1])
        /\ info.quantifierList # <<>> =>
            ~IsQuantifier(TokenAfter(info.quantifierList[Len(info.quantifierList)]))

\* C24: when the specification-expression parser returns, the flag list and
\* the parameter-list list of the quantifiers have the same length and the
\* order of the groups of the input; the property form gives one group
\* flagged forall with the array identifier recorded, the general form one
\* group for each leading forall or exists, flagged true for forall and
\* false for exists.
C24_QuantifierLists ==
    /\ \A info \in SpecificationInfos : GroupsAsInInput(info)
    /\ (entry = "parseSpecificationExpression" /\ parser.driver = "returned") =>
        LET info == parser.val.info
        IN /\ ~IsNull(info.arrayId) <=> (IsQuantifier(1) = FALSE /\ KindAt(parser, 1) = "Identifier"
                                         /\ parser.toks[1] = "property")
           /\ IsNull(info.arrayId) =>
                IF info.quantifierList = <<>> THEN ~IsQuantifier(1)
                ELSE KeywordOf(info, 1) = 1

\* exists (uint i) forall (uint j) exists (uint k) true
C24_Witness ==
    /\ entry = "parseSpecificationExpression" /\ parser.driver = "returned"
    /\ parser.val.info.isForall = <<FALSE, TRUE, FALSE>>
    /\ Len(parser.val.info.quantifierList) = 3
    /\ \A k \in 1..Len(parser.errs) : parser.errs[k].sev # "error"

\* property (a) (i) forall (uint j) true: one group, the array identifier
\* recorded, the following keyword is part of the expression
C24_WitnessProperty ==
    /\ entry = "parseSpecificationExpression" /\ parser.driver = "returned"
    /\ parser.val.info.isForall = <<TRUE>>
    /\ parser.val.info.arrayId.name = "a"
    /\ IsQuantifier(TokenAfter(parser.val.info.quantifierList[1]))

\* the conditions of a case: one with exists, one of the property form
C24_WitnessCase ==
    /\ entry = "parseSpecificationCases" /\ parser.driver = "returned"
    /\ \E i \in 1..Len(parser.val) :
        /\ parser.val[i].preconditionInfo.isForall = <<FALSE>>
        /\ ~IsNull(parser.val[i].postconditionInfo.arrayId)

\* ---------------------------------------------------------------- C25
\* C25: every call of an entry point terminates: no loop of the parser is
\* entered again at the end of the source in the state of its previous
\* iteration.
C25_Terminates == entry # "" => parser.fail # "diverge"

\* ---------------------------------------------------------------- C26
\* the blocks of the result
Blocks ==
    UNION {{n \in SubtreesOf(Roots[r]) : n.kind = "Block"} : r \in 1..Len(Roots)}

\* C26: every entry of the statement list of every block of a returned AST
\* is a statement, never null, also where a statement was abandoned on a
\* fatal error and the parser resynchronized at the next `;`.
C26_NoNullStatement ==
    \A b \in Blocks : \A i \in 1..Len(b.kids) : ~IsNull(b.kids[i])

\* ---------------------------------------------------------------- C27
\* a parser on the tokens of the run, about to parse the statement that
\* starts at token i
StatementStart(i) ==
    [NewParser(parser.recovery) EXCEPT !.toks = parser.toks, !.kinds = parser.kinds,
                                       !.lic = parser.lic, !.pos = i]

\* the statement at token i parsed through the resolver, and the same tokens
\* parsed by the expression parser alone, called at the depth at which the
\* statement parser calls it
ThroughResolver(i) == Call("ParseSimpleStatement", <<StatementStart(i)>>)
WithoutResolver(i) == Call("ParseExpression", <<[StatementStart(i) EXCEPT !.depth = 2], Null>>)

\* a tree without the ids of its nodes
RECURSIVE Shape(_)
Shape(n) ==
    IF IsNull(n) THEN <<>>
    ELSE <<n.kind, n.s, n.e, n.name, n.attr, [i \in 1..Len(n.kids) |-> Shape(n.kids[i])]>>

\* the call ran into the limit of the recursion depth
HitsLimit(q) == \E k \in 1..Len(q.errs) : q.errs[k].id = 7319

\* both routes end the same way at the same token, with the same
\* diagnostics and the same expression (the routes nest differently, so
\* inputs on which one of them reaches the depth limit are left aside)
SameOutcome(i) ==
    LET a == ThroughResolver(i)
        b == WithoutResolver(i)
    IN HitsLimit(a) \/ HitsLimit(b)
       \/ /\ a.thrown = b.thrown /\ a.fail = b.fail
          /\ a.errs = b.errs
          /\ a.pos = b.pos
          /\ (~a.thrown /\ a.fail = "") =>
               /\ a.val.kind = "ExpressionStatement"
               /\ Shape(a.val.kids[1]) = Shape(b.val)

\* the statements of the run that the resolver classified as expressions
\* after it had consumed a path
ResolvedAsExpression ==
    {k \in 1..Len(parser.looks) :
        parser.looks[k].type = "Expression" /\ parser.looks[k].to > parser.looks[k].from}

\* the path consumed for the k-th of them has the keyword address as a member
HasAddressMember(k) ==
    \E i \in parser.looks[k].from..parser.looks[k].to - 1 :
        parser.kinds[i] = "address" /\ i > 1 /\ parser.kinds[i - 1] = "."

\* C27: a statement that the resolver classifies as an expression after
\* consuming an index-accessed path gives the expression, the diagnostics
\* and the final token that the expression parser gives on the same tokens
\* without the resolver, also when a member of the path is the keyword
\* address.
C27_RoutesAgree ==
    \A k \in ResolvedAsExpression : SameOutcome(parser.looks[k].from)

\* ---------------------------------------------------------------- C28
\* the `(` at which the statement of the k-th look-ahead starts, 0 if that
\* statement does not start with `(`: the look-ahead is taken after the `(`
\* and the commas that follow it
LeadingParen(k) ==
    LET from == parser.looks[k].from
        commas == Cardinality({i \in 1..from - 1 :
                      \A j \in i..from - 1 : parser.kinds[j] = ","})
        s == from - commas - 1
    IN IF s >= 2 /\ parser.kinds[s] = "(" /\ parser.kinds[s - 1] \in {"{", "}", ";"}
       THEN s ELSE 0

\* the statements of the run that start with `(` and are classified as
\* expressions
TupleStatements ==
    {k \in 1..Len(parser.looks) : parser.looks[k].type = "Expression" /\ LeadingParen(k) # 0}

\* C28: for a statement that starts with `(` and is classified as an
\* expression, the simple-statement parser and the primary-expression parser
\* agree on the same tokens: both accept or both fail, and the tuples have
\* the same components with nulls at the same places, also for `()` and for
\* tuples of omitted components only such as `(,)`.
C28_TupleRoutesAgree ==
    \A k \in TupleStatements : SameOutcome(LeadingParen(k))

\* ---------------------------------------------------------------- C29
\* the minimum precedences parseBinaryExpression is called with: that of
\* parseExpression and one more than that of each binary operator
MinPrecedences == 4..15

\* parseBinaryExpression and parseExpression called at token i of the input
BinaryFrom(i, minPrecedence) ==
    Call("ParseBinaryExpression", <<StatementStart(i), minPrecedence, Null>>)
ExpressionFrom(i) == Call("ParseExpression", <<StatementStart(i), Null>>)

ReturnedNormally(q) == ~q.thrown /\ q.fail = ""

\* C29: when parseBinaryExpression(minPrecedence) returns, the precedence of
\* the current token is less than minPrecedence.  So after the call with
\* minimum precedence 4 the current token is no binary operator, the
\* expression parser consumes more only at an assignment operator or `?`,
\* and an expression parsed from a scanner never ends at a binary operator.
C29_PrecedenceBelowMinimum ==
    entry = "parseExpression" =>
        /\ \A i \in 1..Len(parser.toks) + 1 : \A m \in MinPrecedences :
            ReturnedNormally(BinaryFrom(i, m)) => Precedence(Cur(BinaryFrom(i, m))) < m
        /\ \A i \in 1..Len(parser.toks) + 1 :
            (/\ ReturnedNormally(BinaryFrom(i, 4))
             /\ Cur(BinaryFrom(i, 4)) \notin AssignmentOps \cup {"?"})
            => /\ ReturnedNormally(ExpressionFrom(i))
               /\ ExpressionFrom(i).pos = BinaryFrom(i, 4).pos
        /\ parser.driver = "returned" => Precedence(Cur(parser)) < 4

\* x * x + x: the call with minimum precedence 13 at the first token returns
\* at the `+`, the call with minimum precedence 4 at the end
C29_Witness ==
    /\ entry = "parseExpression" /\ parser.driver = "returned"
    /\ parser.toks = <<"x", "*", "x", "+", "x">>
    /\ parser.val.name = "+"
    /\ ReturnedNormally(BinaryFrom(1, 13)) /\ BinaryFrom(1, 13).pos = 4
    /\ ReturnedNormally(BinaryFrom(1, 4)) /\ Cur(BinaryFrom(1, 4)) = "EOS"

\* x + x = x: the call with minimum precedence 4 returns at the assignment
\* operator, which the expression parser consumes
C29_WitnessAssignment ==
    /\ entry = "parseExpression" /\ parser.driver = "returned"
    /\ ReturnedNormally(BinaryFrom(1, 4)) /\ Cur(BinaryFrom(1, 4)) \in AssignmentOps
    /\ BinaryFrom(1, 4).val.kind = "BinaryOperation"
    /\ parser.val.kind = "Assignment"

\* ---------------------------------------------------------------- C30
\* the catch blocks a FatalError passed through, by recovery point
EventsAt(point) == {k \in 1..Len(parser.recov) : parser.recov[k].point = point}

\* C30: with error recovery disabled, m_inParserRecovery is false at every
\* catch block, before and after it, and at the end of the parse; no catch
\* block absorbs a FatalError; and expectTokenOrConsumeUntil is never
\* invoked, so that none of its diagnostics is reported.
C30_NoRecoveryWhenDisabled ==
    (entry # "" /\ ~parser.recovery) =>
        /\ ~parser.inRec
        /\ parser.resyncs = 0
        /\ SyncCount(parser) = 0
        /\ \A k \in 1..Len(parser.recov) :
            /\ ~parser.recov[k].recovery
            /\ ~parser.recov[k].absorbed
            /\ ~parser.recov[k].flagBefore
            /\ ~parser.recov[k].flagAfter

\* recovery is disabled and a FatalError with errors reported passes the
\* catch blocks of a statement, a block and a contract
C30_Witness ==
    /\ entry = "parse" /\ ~parser.recovery
    /\ \A point \in {"Statement", "Block", "ContractDefinition"} :
        \E k \in EventsAt(point) : parser.recov[k].hasErrors /\ ~parser.recov[k].excessive
    /\ parser.thrown = FALSE /\ IsNull(parser.val)

\* recovery is disabled and a contract with a function whose block holds a
\* statement is returned: `;` and both `}` went through expectToken
C30_WitnessClosed ==
    /\ entry = "parse" /\ ~parser.recovery /\ parser.driver = "returned"
    /\ \A k \in 1..Len(parser.errs) : parser.errs[k].sev # "error"
    /\ \E n \in SubtreesOf(parser.val) :
        /\ n.kind = "ContractDefinition"
        /\ \E b \in SubtreesOf(n) : b.kind = "Block" /\ b.kids # <<>>

\* with recovery enabled the resynchronization is invoked
C30_WitnessEnabled ==
    entry = "parse" /\ parser.recovery /\ parser.resyncs > 0 /\ SyncCount(parser) > 0

=========================================================================
